---- MODULE Spec2Model ----
(***************************************************************************)
(* Condition-driven scoring engine of trade-hunter: the restricted         *)
(* expression evaluator (scoring/safe_eval.py), the state matchers of the  *)
(* rule-table engines (scoring/*.py) and the department components         *)
(* (rulebooks/scoring_system.py).                                          *)
(*                                                                         *)
(* Numbers are exact rationals n/d (d > 0); Python floats are read as the  *)
(* real numbers they denote.  A Python value is a record [t, n, d]:        *)
(*   t = "num"   the number n/d            t = "bool"  n = 1 True, 0 False *)
(*   t = "none"  None                      t = "func"  a builtin function  *)
(*   t = "obj"   a class / module object   t = "list"  a list of length n  *)
(*   t = "absent" the key is not in the mapping                            *)
(* and an exception in flight is a record whose t is the exception name.   *)
(***************************************************************************)
EXTENDS Integers, Sequences, FiniteSets, TLC

VARIABLES snapshot, op, arg, out, earlier

vars == <<snapshot, op, arg, out, earlier>>

-----------------------------------------------------------------------------
(* Bounds of the model                                                     *)

MaxStates == 3

MaxMetrics == 3

MaxIndicators == 2

MaxSymbols == 2
MaxPatterns == 2
MaxNews == 2

-----------------------------------------------------------------------------
(* Rational arithmetic                                                     *)

\* the one member of a singleton: a value computed once, as the local
\* variable the code keeps it in
The(S) == CHOOSE x \in S : TRUE

Abs(i) == IF i < 0 THEN -i ELSE i

RECURSIVE Gcd(_, _)
Gcd(a, b) == IF b = 0 THEN a ELSE Gcd(b, a % b)

\* n/d in lowest terms with a positive denominator
Rat(n, d) ==
    The({The({[n |-> (s * x) \div g, d |-> (s * y) \div g] :
              s \in {IF y < 0 THEN -1 ELSE 1}, g \in {Gcd(Abs(x), Abs(y))}}) :
         x \in {n}, y \in {d}})

RAdd(a, b) == The({Rat(x.n * y.d + y.n * x.d, x.d * y.d) : x \in {a}, y \in {b}})
RSub(a, b) == The({Rat(x.n * y.d - y.n * x.d, x.d * y.d) : x \in {a}, y \in {b}})
RMul(a, b) == The({Rat(x.n * y.n, x.d * y.d) : x \in {a}, y \in {b}})
RDiv(a, b) == The({Rat(x.n * y.d, x.d * y.n) : x \in {a}, y \in {b}})
RLt(a, b) == \E x \in {a}, y \in {b} : x.n * y.d < y.n * x.d
RLe(a, b) == \E x \in {a}, y \in {b} : x.n * y.d <= y.n * x.d
REq(a, b) == \E x \in {a}, y \in {b} : x.n * y.d = y.n * x.d
RAbs(a) == The({[n |-> Abs(x.n), d |-> x.d] : x \in {a}})
RMin(a, b) == The({IF RLt(y, x) THEN y ELSE x : x \in {a}, y \in {b}})
RMax(a, b) == The({IF RLt(x, y) THEN y ELSE x : x \in {a}, y \in {b}})

\* Python's % on integers: the result takes the sign of the divisor.
PyMod(a, b) == IF b > 0 THEN a % b ELSE -((-a) % (-b))

-----------------------------------------------------------------------------
(* Python values                                                           *)

Num(n, d) == The({[t |-> "num", n |-> r.n, d |-> r.d] : r \in {Rat(n, d)}})
Bool(b) == [t |-> "bool", n |-> IF b THEN 1 ELSE 0, d |-> 1]
None == [t |-> "none", n |-> 0, d |-> 1]
Absent == [t |-> "absent", n |-> 0, d |-> 1]
BuiltinAbs == [t |-> "func", n |-> 1, d |-> 1]
ModuleMath == [t |-> "obj", n |-> 2, d |-> 1]
ClassObj == [t |-> "obj", n |-> 1, d |-> 1]
List(len) == [t |-> "list", n |-> len, d |-> 1]
Raise(name) == [t |-> name, n |-> 0, d |-> 1]

Exceptions == {"ValueError", "TypeError", "ZeroDivisionError", "NameError",
               "AttributeError", "SyntaxError"}

IsRaise(v) == v.t \in Exceptions
IsNumeric(v) == v.t \in {"num", "bool"}

\* bool(v)
Truthy(v) ==
    CASE v.t \in {"num", "bool", "list"} -> v.n # 0
      [] v.t = "none" -> FALSE
      [] OTHER -> TRUE

-----------------------------------------------------------------------------
(* Syntax trees, as ast.parse(expr, mode='eval') builds them                *)

Constant(v) == [kind |-> "Constant", value |-> v]
Name(id) == [kind |-> "Name", id |-> id]
BinOp(l, o, r) == [kind |-> "BinOp", op |-> o, left |-> l, right |-> r]
BoolOp(o, vs) == [kind |-> "BoolOp", op |-> o, values |-> vs]
Compare(l, os, cs) == [kind |-> "Compare", left |-> l, ops |-> os, comparators |-> cs]
UnaryOp(o, e) == [kind |-> "UnaryOp", op |-> o, operand |-> e]
Call(f, as) == [kind |-> "Call", func |-> f, args |-> as]
Attribute(e, a) == [kind |-> "Attribute", value |-> e, attr |-> a]
Subscript(e, i) == [kind |-> "Subscript", value |-> e, slice |-> i]
ListComp(len) == [kind |-> "ListComp", len |-> len]
Lambda(b) == [kind |-> "Lambda", body |-> b]
NoTree == [kind |-> "SyntaxError"]

-----------------------------------------------------------------------------
(* The operator table OPS of safe_eval                                     *)

ArithOps == {"Add", "Sub", "Mult", "Div", "Mod"}
CompareOps == {"Eq", "NotEq", "Gt", "GtE", "Lt", "LtE", "Is", "IsNot"}
BoolOps == {"And", "Or"}
OPS == ArithOps \cup CompareOps \cup BoolOps

\* operator.add, sub, mul, truediv, mod on two values
Arith(o, a, b) ==
    IF ~(IsNumeric(a) /\ IsNumeric(b)) THEN Raise("TypeError")
    ELSE CASE o = "Add" -> Num(a.n * b.d + b.n * a.d, a.d * b.d)
           [] o = "Sub" -> Num(a.n * b.d - b.n * a.d, a.d * b.d)
           [] o = "Mult" -> Num(a.n * b.n, a.d * b.d)
           [] o = "Div" -> IF b.n = 0 THEN Raise("ZeroDivisionError")
                           ELSE Num(a.n * b.d, a.d * b.n)
           [] o = "Mod" -> IF b.n = 0 THEN Raise("ZeroDivisionError")
                           ELSE Num(PyMod(a.n * b.d, b.n * a.d), a.d * b.d)

\* a == b
PyEq(a, b) ==
    CASE IsNumeric(a) /\ IsNumeric(b) -> a.n * b.d = b.n * a.d
      [] a.t = "list" \/ b.t = "list" -> FALSE
      [] OTHER -> a = b

\* a is b: None, True, False, functions and classes are singletons; two
\* numbers are taken identical when they are the same object value
PyIs(a, b) == a = b

\* operator.eq, ne, gt, ge, lt, le and the two identity lambdas
Comparison(o, a, b) ==
    CASE o = "Eq" -> Bool(PyEq(a, b))
      [] o = "NotEq" -> Bool(~PyEq(a, b))
      [] o = "Is" -> Bool(PyIs(a, b))
      [] o = "IsNot" -> Bool(~PyIs(a, b))
      [] OTHER ->
           IF ~(IsNumeric(a) /\ IsNumeric(b)) THEN Raise("TypeError")
           ELSE CASE o = "Gt" -> Bool(a.n * b.d > b.n * a.d)
                  [] o = "GtE" -> Bool(a.n * b.d >= b.n * a.d)
                  [] o = "Lt" -> Bool(a.n * b.d < b.n * a.d)
                  [] o = "LtE" -> Bool(a.n * b.d <= b.n * a.d)

\* lambda a, b: a and b ; lambda a, b: a or b
Logical(o, a, b) ==
    IF o = "And" THEN (IF Truthy(a) THEN b ELSE a)
    ELSE (IF Truthy(a) THEN a ELSE b)

-----------------------------------------------------------------------------
(* scoring/safe_eval.py                                                    *)

RECURSIVE SafeEvalNode(_, _)
RECURSIVE SafeEvalBoolOp(_, _, _, _, _)
RECURSIVE SafeEvalCompare(_, _, _, _, _)

\* the loop "for value in node.values[1:]: left = op(left, _eval(value))"
SafeEvalBoolOp(o, values, i, left, variables) ==
    IF i > Len(values) THEN left
    ELSE The({IF IsRaise(v) THEN v
              ELSE SafeEvalBoolOp(o, values, i + 1, Logical(o, left, v), variables) :
              v \in {SafeEvalNode(values[i], variables)}})

RECURSIVE SafeEvalCompare_KeepLeft(_, _, _, _, _)
\* the comparison loop without its last line "left = right": every operand
\* is compared with the left-most one
SafeEvalCompare_KeepLeft(ops, comparators, i, left, variables) ==
    IF i > Len(ops) THEN Bool(TRUE)
    ELSE IF ops[i] \notin OPS THEN Raise("ValueError")
    ELSE The({IF IsRaise(right) THEN right
              ELSE The({IF IsRaise(r) THEN r
                        ELSE IF ~Truthy(r) THEN Bool(FALSE)
                        ELSE SafeEvalCompare_KeepLeft(ops, comparators, i + 1, left, variables) :
                        r \in {Comparison(ops[i], left, right)}}) :
              right \in {SafeEvalNode(comparators[i], variables)}})

\* the loop "for op, comparator in zip(node.ops, node.comparators)"
SafeEvalCompare(ops, comparators, i, left, variables) ==
    IF i > Len(ops) THEN Bool(TRUE)
    ELSE IF ops[i] \notin OPS THEN Raise("ValueError")
    ELSE The({IF IsRaise(right) THEN right
              ELSE The({IF IsRaise(r) THEN r
                        ELSE IF ~Truthy(r) THEN Bool(FALSE)
                        ELSE SafeEvalCompare(ops, comparators, i + 1, right, variables) :
                        r \in {Comparison(ops[i], left, right)}}) :
              right \in {SafeEvalNode(comparators[i], variables)}})

\* _eval(node)
SafeEvalNode(node, variables) ==
    CASE node.kind = "Constant" -> node.value
      [] node.kind = "Name" ->
           IF variables[node.id].t # "absent" THEN variables[node.id]
           ELSE Raise("ValueError")
      [] node.kind = "BinOp" ->
           IF node.op \notin OPS THEN Raise("ValueError")
           ELSE The({IF IsRaise(l) THEN l
                     ELSE The({IF IsRaise(r) THEN r ELSE Arith(node.op, l, r) :
                               r \in {SafeEvalNode(node.right, variables)}}) :
                     l \in {SafeEvalNode(node.left, variables)}})
      [] node.kind = "BoolOp" ->
           IF node.op \notin OPS THEN Raise("ValueError")
           ELSE IF Len(node.values) < 2 THEN Raise("ValueError")
           ELSE The({IF IsRaise(first) THEN first
                     ELSE SafeEvalBoolOp(node.op, node.values, 2, first, variables) :
                     first \in {SafeEvalNode(node.values[1], variables)}})
      [] node.kind = "Compare" ->
           IF Len(node.ops) # Len(node.comparators) THEN Raise("ValueError")
           ELSE The({IF IsRaise(left) THEN left
                     ELSE SafeEvalCompare(node.ops, node.comparators, 1, left, variables) :
                     left \in {SafeEvalNode(node.left, variables)}})
      [] OTHER -> Raise("ValueError")

\* safe_eval(expr, variables): the boolean it returns, or the ValueError it
\* raises (every other exception is re-raised as ValueError)
safe_eval(expr, variables) ==
    IF expr.blank THEN Bool(FALSE)
    ELSE IF expr.tree.kind = "SyntaxError" THEN Raise("ValueError")
    ELSE The({IF IsRaise(result) THEN Raise("ValueError") ELSE Bool(Truthy(result)) :
              result \in {SafeEvalNode(expr.tree, variables)}})

-----------------------------------------------------------------------------
(* Python's builtin eval(cond, {"__builtins__": {}}, env), which           *)
(* FundamentalsScoringEngine._match_condition and                          *)
(* TechnicalIndicatorsComponent._evaluate_condition call.  Only the        *)
(* constructs of the condition catalogue below are given a meaning.        *)

\* type(v), as a class object: 10 float/int, 11 bool, 12 NoneType,
\* 13 builtin function, 14 type, 15 module, 16 list
ClassOf(v) ==
    CASE v.t = "num" -> [t |-> "obj", n |-> 10, d |-> 1]
      [] v.t = "bool" -> [t |-> "obj", n |-> 11, d |-> 1]
      [] v.t = "none" -> [t |-> "obj", n |-> 12, d |-> 1]
      [] v.t = "func" -> [t |-> "obj", n |-> 13, d |-> 1]
      [] v.t = "list" -> [t |-> "obj", n |-> 16, d |-> 1]
      [] v.t = "obj" -> [t |-> "obj", n |-> IF v.n = 2 THEN 15 ELSE 14, d |-> 1]

\* f(*args) for the callables a condition can reach
PyCall(f, args) ==
    CASE f = BuiltinAbs ->
           IF Len(args) = 1 /\ IsNumeric(args[1]) THEN Num(Abs(args[1].n), args[1].d)
           ELSE Raise("TypeError")
      [] f.t = "obj" /\ f.n = 10 /\ Len(args) = 0 -> Num(0, 1)
      [] f.t = "obj" /\ f.n = 11 /\ Len(args) = 0 -> Bool(FALSE)
      [] f.t = "obj" /\ f.n = 12 /\ Len(args) = 0 -> None
      [] f.t = "obj" /\ f.n = 16 /\ Len(args) = 0 -> List(0)
      [] f.t \in {"num", "bool", "none", "list"} -> Raise("TypeError")
      [] f.t = "obj" /\ f.n \in {2, 13, 14, 15} /\ Len(args) = 0 -> Raise("TypeError")

\* v.attr
PyGetAttr(v, attr) ==
    CASE attr = "__class__" -> ClassOf(v)
      [] attr = "real" /\ IsNumeric(v) -> Num(v.n, v.d)
      [] OTHER -> Raise("AttributeError")

RECURSIVE PyEvalNode(_, _)
RECURSIVE PyEvalBoolOp(_, _, _, _)
RECURSIVE PyEvalCompare(_, _, _, _, _)
RECURSIVE PyEvalArgs(_, _, _, _)

\* a and b and ... / a or b or ...: the first operand that decides is the value
PyEvalBoolOp(o, values, i, variables) ==
    The({IF IsRaise(v) \/ i = Len(values) THEN v
         ELSE IF o = "And" /\ ~Truthy(v) THEN v
         ELSE IF o = "Or" /\ Truthy(v) THEN v
         ELSE PyEvalBoolOp(o, values, i + 1, variables) :
         v \in {PyEvalNode(values[i], variables)}})

PyEvalCompare(ops, comparators, i, left, variables) ==
    The({IF IsRaise(right) THEN right
         ELSE The({IF IsRaise(r) \/ i = Len(ops) \/ ~Truthy(r) THEN r
                   ELSE PyEvalCompare(ops, comparators, i + 1, right, variables) :
                   r \in {Comparison(ops[i], left, right)}}) :
         right \in {PyEvalNode(comparators[i], variables)}})

PyEvalArgs(args, i, done, variables) ==
    IF i > Len(args) THEN done
    ELSE The({IF IsRaise(v) THEN <<v>>
              ELSE PyEvalArgs(args, i + 1, Append(done, v), variables) :
              v \in {PyEvalNode(args[i], variables)}})

PyEvalNode(node, variables) ==
    CASE node.kind = "Constant" -> node.value
      [] node.kind = "Name" ->
           IF variables[node.id].t # "absent" THEN variables[node.id]
           ELSE Raise("NameError")
      [] node.kind = "BinOp" /\ node.op \in ArithOps ->
           The({IF IsRaise(l) THEN l
                ELSE The({IF IsRaise(r) THEN r ELSE Arith(node.op, l, r) :
                          r \in {PyEvalNode(node.right, variables)}}) :
                l \in {PyEvalNode(node.left, variables)}})
      [] node.kind = "BoolOp" -> PyEvalBoolOp(node.op, node.values, 1, variables)
      [] node.kind = "Compare" /\ (\A i \in 1..Len(node.ops) : node.ops[i] \in CompareOps) ->
           The({IF IsRaise(left) THEN left
                ELSE PyEvalCompare(node.ops, node.comparators, 1, left, variables) :
                left \in {PyEvalNode(node.left, variables)}})
      [] node.kind = "UnaryOp" /\ node.op \in {"USub", "Not"} ->
           The({IF IsRaise(v) THEN v
                ELSE IF node.op = "Not" THEN Bool(~Truthy(v))
                ELSE IF IsNumeric(v) THEN Num(-v.n, v.d)
                ELSE Raise("TypeError") :
                v \in {PyEvalNode(node.operand, variables)}})
      [] node.kind = "Call" ->
           The({IF IsRaise(f) THEN f
                ELSE The({IF Len(as) > 0 /\ IsRaise(as[Len(as)]) THEN as[Len(as)]
                          ELSE PyCall(f, as) :
                          as \in {PyEvalArgs(node.args, 1, <<>>, variables)}}) :
                f \in {PyEvalNode(node.func, variables)}})
      [] node.kind = "Attribute" ->
           The({IF IsRaise(v) THEN v ELSE PyGetAttr(v, node.attr) :
                v \in {PyEvalNode(node.value, variables)}})
      [] node.kind = "Subscript" ->
           The({CASE IsRaise(v) -> v
                  [] v.t \in {"num", "bool", "none", "func"} -> Raise("TypeError") :
                v \in {PyEvalNode(node.value, variables)}})
      [] node.kind = "ListComp" -> List(node.len)
      [] node.kind = "Lambda" -> [t |-> "func", n |-> 2, d |-> 1]

\* bool(eval(cond, {"__builtins__": {}}, env)), or the exception eval raises
py_eval(expr, variables) ==
    IF expr.tree.kind = "SyntaxError" THEN Raise("SyntaxError")
    ELSE The({IF IsRaise(result) THEN result ELSE Bool(Truthy(result)) :
              result \in {PyEvalNode(expr.tree, variables)}})

-----------------------------------------------------------------------------
(* The condition strings the engines are run on.  blank: the text is empty *)
(* or whitespace; empty: the text is ""; colon, upperAND: the text         *)
(* contains ":" / "AND"; tree: what ast.parse makes of it.                 *)

Names == {"pe_ratio", "pb_ratio", "rsi", "gamma_exposure",
          "gamma_critical_threshold", "abs", "math", "foo", "v",
          "has_open_position", "rr_multiple_live"}

Cond(text, tree) ==
    [text |-> text, empty |-> FALSE, blank |-> FALSE, colon |-> FALSE,
     upperAND |-> FALSE, tree |-> tree]

\* a whole-number literal
K(n) == Constant([t |-> "num", n |-> n, d |-> 1])

PeRatio == Name("pe_ratio")
PbRatio == Name("pb_ratio")
Rsi == Name("rsi")
Gamma == Name("gamma_exposure")
GammaCrit == Name("gamma_critical_threshold")

Conditions == <<
    [Cond("", NoTree) EXCEPT !.empty = TRUE, !.blank = TRUE],
    [Cond("  ", NoTree) EXCEPT !.blank = TRUE],
    Cond("rsi >= 80", Compare(Rsi, <<"GtE">>, <<K(80)>>)),
    Cond("12 <= pe_ratio <= 18 and pb_ratio < 2.0",
         BoolOp("And", <<Compare(K(12), <<"LtE", "LtE">>, <<PeRatio, K(18)>>),
                         Compare(PbRatio, <<"Lt">>, <<K(2)>>)>>)),
    Cond("pe_ratio.__class__", Attribute(PeRatio, "__class__")),
    Cond("gamma_exposure < 0 and abs(gamma_exposure) >= gamma_critical_threshold",
         BoolOp("And", <<Compare(Gamma, <<"Lt">>, <<K(0)>>),
                         Compare(Call(Name("abs"), <<Gamma>>), <<"GtE">>, <<GammaCrit>>)>>)),
    Cond("pe_ratio is None or pe_ratio < 15",
         BoolOp("Or", <<Compare(PeRatio, <<"Is">>, <<Constant(None)>>),
                        Compare(PeRatio, <<"Lt">>, <<K(15)>>)>>)),
    Cond("pe_ratio is not None and pe_ratio < 15",
         BoolOp("And", <<Compare(PeRatio, <<"IsNot">>, <<Constant(None)>>),
                         Compare(PeRatio, <<"Lt">>, <<K(15)>>)>>)),
    Cond("pe_ratio / gamma_exposure > 1",
         Compare(BinOp(PeRatio, "Div", Gamma), <<"Gt">>, <<K(1)>>)),
    Cond("rsi[0] > 1", Compare(Subscript(Rsi, K(0)), <<"Gt">>, <<K(1)>>)),
    Cond("(19 < pe_ratio < rsi.real) or pb_ratio < 2.0",
         BoolOp("Or", <<Compare(K(19), <<"Lt", "Lt">>, <<PeRatio, Attribute(Rsi, "real")>>),
                        Compare(PbRatio, <<"Lt">>, <<K(2)>>)>>)),
    Cond("gamma_exposure <= -3", Compare(Gamma, <<"LtE">>, <<UnaryOp("USub", K(3))>>)),
    Cond("-6 <= gamma_exposure <= 6",
         Compare(UnaryOp("USub", K(6)), <<"LtE", "LtE">>, <<Gamma, K(6)>>)),
    Cond("has_open_position and rr_multiple_live >= 1.0",
         BoolOp("And", <<Name("has_open_position"),
                         Compare(Name("rr_multiple_live"), <<"GtE">>, <<K(1)>>)>>)),
    Cond("gamma_exposure <= -1.2 * gamma_critical_threshold",
         Compare(Gamma, <<"LtE">>,
                 <<BinOp(UnaryOp("USub", Constant(Num(6, 5))), "Mult", GammaCrit)>>)),
    Cond("[v for v in (1,)]", ListComp(1)),
    [Cond("lambda: 0", Lambda(K(0))) EXCEPT !.colon = TRUE],
    [Cond("price: lower low AND rsi: higher low", NoTree)
        EXCEPT !.colon = TRUE, !.upperAND = TRUE],
    Cond("foo(pe_ratio) > 1", Compare(Call(Name("foo"), <<PeRatio>>), <<"Gt">>, <<K(1)>>)),
    Cond("pe_ratio = 15", NoTree),
    Cond("rsi >= 80 or pb_ratio < 2.0",
         BoolOp("Or", <<Compare(Rsi, <<"GtE">>, <<K(80)>>),
                        Compare(PbRatio, <<"Lt">>, <<K(2)>>)>>)),
    Cond("pb_ratio < 2.0 or rsi >= 80",
         BoolOp("Or", <<Compare(PbRatio, <<"Lt">>, <<K(2)>>),
                        Compare(Rsi, <<"GtE">>, <<K(80)>>)>>)),
    Cond("0 < pb_ratio < pe_ratio < 18",
         Compare(K(0), <<"Lt", "Lt", "Lt">>, <<PbRatio, PeRatio, K(18)>>)),
    Cond("12 <= pe_ratio <= rsi",
         Compare(K(12), <<"LtE", "LtE">>, <<PeRatio, Rsi>>)),
    Cond("pe_ratio - pb_ratio * 5 > 5",
         Compare(BinOp(PeRatio, "Sub", BinOp(PbRatio, "Mult", K(5))), <<"Gt">>, <<K(5)>>)),
    Cond("pe_ratio % 4 == 3", Compare(BinOp(PeRatio, "Mod", K(4)), <<"Eq">>, <<K(3)>>)),
    Cond("pb_ratio < 2.0 and rsi >= 80",
         BoolOp("And", <<Compare(PbRatio, <<"Lt">>, <<K(2)>>),
                         Compare(Rsi, <<"GtE">>, <<K(80)>>)>>)),
    Cond("pe_ratio < 15 and rsi >= 80",
         BoolOp("And", <<Compare(PeRatio, <<"Lt">>, <<K(15)>>),
                         Compare(Rsi, <<"GtE">>, <<K(80)>>)>>))
>>

CondIds == 1..Len(Conditions)

\* the index of a condition text in the catalogue
CondOf(text) == CHOOSE c \in CondIds : Conditions[c].text = text

-----------------------------------------------------------------------------
(* Snapshots: the values an entity's snapshot gives the variables          *)

SnapshotVars == {"pe_ratio", "pb_ratio", "rsi", "gamma_exposure",
                 "gamma_critical_threshold"}

Domain(var) ==
    CASE var = "pe_ratio" -> {None, Num(11, 1), Num(15, 1), Num(19, 1)}
      [] var = "pb_ratio" -> {Num(18, 10), Num(25, 10)}
      [] var = "rsi" -> {Absent, None, Num(85, 1)}
      [] var = "gamma_exposure" -> {Num(-5, 1), Num(0, 1)}
      [] var = "gamma_critical_threshold" -> {Num(3, 1), Num(7, 1)}

Snapshots == {s \in [SnapshotVars -> UNION {Domain(v) : v \in SnapshotVars}] :
                 \A v \in SnapshotVars : s[v] \in Domain(v)}

\* a dict as a total mapping: the names it does not hold are Absent
AsEnv(d) == [name \in Names |-> IF name \in DOMAIN d THEN d[name] ELSE Absent]

\* dict.get(key): None when the key is missing
Get(d, key) == IF key \in DOMAIN d /\ d[key].t # "absent" THEN d[key] ELSE None

-----------------------------------------------------------------------------
(* The state matchers' condition evaluation, engine by engine              *)

\* OptionsFlowScoringEngine.score / SentimentScoringEngine._score_timeframe:
\* the snapshot's items plus "abs" (the keys "True", "False", "None" they
\* also add are constants to the parser, never names)
BindNames(d) == [AsEnv(d) EXCEPT !["abs"] = BuiltinAbs]

\* OptionsFlowScoringEngine._safe_eval
OptionsFlow_safe_eval(condition, variables) ==
    IF condition.empty \/ condition.blank THEN FALSE
    ELSE \E r \in {safe_eval(condition, variables)} : ~IsRaise(r) /\ Truthy(r)

\* SentimentScoringEngine._safe_eval
Sentiment_safe_eval(condition, variables) ==
    IF condition.empty \/ condition.blank THEN FALSE
    ELSE \E r \in {safe_eval(condition, variables)} : ~IsRaise(r) /\ Truthy(r)

\* _match_condition with "return True" in its except branch
PositionRisk_match_condition_FailOpen(snap, condition_expr) ==
    \E local_env \in {AsEnv(snap)} :
       \E r \in {safe_eval(condition_expr, local_env)} : IsRaise(r) \/ Truthy(r)

\* PositionRiskScoringEngine._match_condition
PositionRisk_match_condition(snap, condition_expr) ==
    \E local_env \in {AsEnv(snap)} :
       \E r \in {safe_eval(condition_expr, local_env)} : ~IsRaise(r) /\ Truthy(r)

\* the keys FundamentalsScoringEngine._match_condition copies (those of the
\* fourteen that conditions of the catalogue name)
FundamentalsKeys == {"pe_ratio", "pb_ratio"}

\* FundamentalsScoringEngine._match_condition
Fundamentals_match_condition(snap, condition_expr) ==
    \E local_env \in {[name \in Names |->
                           IF name \in FundamentalsKeys THEN Get(snap, name) ELSE Absent]} :
       \E r \in {py_eval(condition_expr, local_env)} : ~IsRaise(r) /\ Truthy(r)

\* the fields of IndicatorSnapshot that conditions of the catalogue name
IndicatorFields == {"rsi"}

\* TechnicalIndicatorsComponent._evaluate_condition
Technical_evaluate_condition(condition, snap) ==
    \E env \in {[name \in Names |->
                     CASE name \in IndicatorFields -> Get(snap, name)
                       [] name = "abs" -> BuiltinAbs
                       [] name = "math" -> ModuleMath
                       [] OTHER -> Absent]} :
       IF condition.blank THEN FALSE
       ELSE IF condition.upperAND \/ condition.colon THEN FALSE
       ELSE \E r \in {py_eval(condition, env)} : ~IsRaise(r) /\ Truthy(r)

Engines == {"options_flow", "sentiment", "position_risk", "fundamentals", "technical"}

\* the evaluator an engine hands a condition to, on the mapping it builds
Evaluate(engine, condition, snap) ==
    CASE engine \in {"options_flow", "sentiment"} -> safe_eval(condition, BindNames(snap))
      [] engine = "position_risk" -> safe_eval(condition, AsEnv(snap))
      [] engine = "fundamentals" ->
           py_eval(condition, [name \in Names |->
                      IF name \in FundamentalsKeys THEN Get(snap, name) ELSE Absent])
      [] engine = "technical" ->
           py_eval(condition, [name \in Names |->
                      CASE name \in IndicatorFields -> Get(snap, name)
                        [] name = "abs" -> BuiltinAbs
                        [] name = "math" -> ModuleMath
                        [] OTHER -> Absent])

\* whether an engine's matcher takes the state as matched
Match(engine, condition, snap) ==
    CASE engine = "options_flow" -> OptionsFlow_safe_eval(condition, BindNames(snap))
      [] engine = "sentiment" -> Sentiment_safe_eval(condition, BindNames(snap))
      [] engine = "position_risk" -> PositionRisk_match_condition(snap, condition)
      [] engine = "fundamentals" -> Fundamentals_match_condition(snap, condition)
      [] engine = "technical" -> Technical_evaluate_condition(condition, snap)

-----------------------------------------------------------------------------
(* Rule tables: states, metrics and indicators drawn from fixed entries    *)

\* a state of a rule table: its condition and its score range [low, high]
State(text, low, high) == [condition |-> CondOf(text), score_range |-> <<low, high>>]

StateDefs == <<
    State("12 <= pe_ratio <= 18 and pb_ratio < 2.0", 4, 6),
    State("pe_ratio is not None and pe_ratio < 15", 3, 5),
    State("pb_ratio < 2.0 or rsi >= 80", 5, 7),
    State("rsi >= 80", -8, -5),
    State("", 1, 1),
    State("pe_ratio / gamma_exposure > 1", -10, -9),
    State("rsi >= 80 or pb_ratio < 2.0", 6, 8),
    \* a range written high first, as VERY_EXPENSIVE's [-7, -9]
    State("pe_ratio is None or pe_ratio < 15", -7, -9),
    State("has_open_position and rr_multiple_live >= 1.0", 3, 6)
>>

StateIds == 1..Len(StateDefs)

RECURSIVE SortedSeq(_)
\* the members of a set of numbers in increasing order: a dict's items come
\* in the order the rule table lists them
SortedSeq(S) ==
    IF S = {} THEN <<>>
    ELSE LET m == CHOOSE x \in S : \A y \in S : x <= y
         IN  <<m>> \o SortedSeq(S \ {m})

\* the "states" dicts a metric can carry for one timeframe
StateTables == {SortedSeq(S) : S \in {T \in SUBSET StateIds : Cardinality(T) <= MaxStates}}

\* the score None of a metric no state of which matched
NoScore == [n |-> 0, d |-> 0]
IsNoScore(x) == x.d = 0

Zero == [n |-> 0, d |-> 1]

RECURSIVE Sum(_)
\* sum(scores)
Sum(scores) == IF scores = <<>> THEN Zero ELSE RAdd(scores[1], Sum(Tail(scores)))

\* sum(scores) / len(scores)
Mean(scores) == RDiv(Sum(scores), [n |-> Len(scores), d |-> 1])

\* (low + high) / 2
Midpoint(score_range) == The({Rat(r[1] + r[2], 2) : r \in {score_range}})

RECURSIVE StatesLoop(_, _, _, _, _)
\* "for state_name, state_rule in states_def.items()": the midpoints and the
\* names of the states whose condition the engine's matcher takes as true;
\* a state with an empty condition is skipped
StatesLoop(engine, states_def, i, acc, snap) ==
    IF i > Len(states_def) THEN acc
    ELSE StatesLoop(engine, states_def, i + 1,
            The({The({IF ~condition.empty /\ Match(engine, condition, snap)
                      THEN [matched_scores |-> Append(acc.matched_scores,
                                                      Midpoint(state_rule.score_range)),
                            matched_states |-> Append(acc.matched_states, states_def[i])]
                      ELSE acc :
                      condition \in {Conditions[state_rule.condition]}}) :
                 state_rule \in {StateDefs[states_def[i]]}}),
            snap)

NoMatches == [matched_scores |-> <<>>, matched_states |-> <<>>]

\* _score_metric_states returning the first matched midpoint, not the mean
Fundamentals_score_metric_states_First(states_def, snap) ==
    The({IF acc.matched_scores = <<>>
         THEN [score |-> NoScore, matched_states |-> acc.matched_states]
         ELSE [score |-> acc.matched_scores[1], matched_states |-> acc.matched_states] :
         acc \in {StatesLoop("fundamentals", states_def, 1, NoMatches, snap)}})

\* FundamentalsScoringEngine._score_metric_states
Fundamentals_score_metric_states(states_def, snap) ==
    The({IF acc.matched_scores = <<>>
         THEN [score |-> NoScore, matched_states |-> acc.matched_states]
         ELSE [score |-> Mean(acc.matched_scores), matched_states |-> acc.matched_states] :
         acc \in {StatesLoop("fundamentals", states_def, 1, NoMatches, snap)}})

\* PositionRiskScoringEngine._score_metric_states
PositionRisk_score_metric_states(states_def, snap) ==
    The({IF acc.matched_scores = <<>>
         THEN [score |-> NoScore, matched_states |-> acc.matched_states]
         ELSE [score |-> Mean(acc.matched_scores), matched_states |-> acc.matched_states] :
         acc \in {StatesLoop("position_risk", states_def, 1, NoMatches, snap)}})

\* SentimentScoringEngine._score_timeframe, on the states of one timeframe
Sentiment_score_timeframe(states_def, snap) ==
    The({IF acc.matched_scores = <<>>
         THEN [score |-> Zero, matched_states |-> <<>>]
         ELSE [score |-> Mean(acc.matched_scores), matched_states |-> acc.matched_states] :
         acc \in {StatesLoop("sentiment", states_def, 1, NoMatches, snap)}})

\* _score_metric_states of the engine asked
score_metric_states(engine, states_def, snap) ==
    CASE engine = "fundamentals" -> Fundamentals_score_metric_states(states_def, snap)
      [] engine = "position_risk" -> PositionRisk_score_metric_states(states_def, snap)
      [] engine = "sentiment" -> Sentiment_score_timeframe(states_def, snap)

-----------------------------------------------------------------------------
(* Timeframe scores of the fundamentals and position-risk engines          *)

Timeframes == {"MINOR", "MAJOR"}

\* meta.groups of the rule table: base_weight by group
GroupsDef == [VALUATION |-> [n |-> 11, d |-> 10], GROWTH |-> [n |-> 1, d |-> 1]]

\* groups_def.get(group_name, {}).get("base_weight", 1.0)
GroupBaseWeight(group_name) ==
    IF group_name \in DOMAIN GroupsDef THEN GroupsDef[group_name] ELSE [n |-> 1, d |-> 1]

\* a metric: group, weight and, for each timeframe it defines, its states
Metric(group, wn, wd, tfs, minor, major) ==
    [group |-> group, weight |-> Rat(wn, wd), timeframes |-> tfs,
     states |-> [MINOR |-> minor, MAJOR |-> major]]

MetricDefs == <<
    Metric("VALUATION", 1, 1, {"MINOR", "MAJOR"}, <<1, 2>>, <<1, 3>>),
    Metric("GROWTH", 8, 10, {"MINOR", "MAJOR"}, <<3>>, <<4>>),
    Metric("QUALITY", 11, 10, {"MINOR"}, <<4, 5>>, <<>>),
    Metric("GROWTH", 0, 1, {"MINOR", "MAJOR"}, <<3>>, <<2>>),
    Metric("VALUATION", 1, 1, {"MINOR", "MAJOR"}, <<5, 6>>, <<6>>),
    Metric("POSITION", 9, 10, {"MINOR"}, <<9>>, <<>>)
>>

MetricIds == 1..Len(MetricDefs)

\* the "metrics" dicts of the rule tables scored
MetricTables == {SortedSeq(S) : S \in {T \in SUBSET MetricIds : Cardinality(T) <= MaxMetrics}}

NoMetrics == [metric_scores |-> <<>>, matched_states |-> <<>>,
              weighted_sum |-> Zero, total_weight |-> Zero]

RECURSIVE Pairs(_, _)
\* the names f"{metric_name}.{state_name}" of a metric's matched states
Pairs(metric, states) ==
    IF states = <<>> THEN <<>> ELSE <<<<metric, states[1]>>>> \o Pairs(metric, Tail(states))

\* one turn of the metrics loop: the accumulators after the metric
\* metric_name, whose states scored r, is taken in with weight w
MetricsStep(acc, metric_name, r, w) ==
    [metric_scores |-> Append(acc.metric_scores, <<metric_name, r.score>>),
     matched_states |-> acc.matched_states \o Pairs(metric_name, r.matched_states),
     weighted_sum |-> RAdd(acc.weighted_sum, RMul(r.score, w)),
     total_weight |-> RAdd(acc.total_weight, w)]

RECURSIVE MetricsLoop_CountsUnmatched(_, _, _, _, _, _)
\* the metrics loop without "if metric_score is None: continue": a metric no
\* state of which matched enters with score 0 and its full weight
MetricsLoop_CountsUnmatched(engine, metrics_def, timeframe, i, acc, snap) ==
    IF i > Len(metrics_def) THEN acc
    ELSE MetricsLoop_CountsUnmatched(engine, metrics_def, timeframe, i + 1,
            The({IF timeframe \notin metric_rule.timeframes THEN acc
                 ELSE The({The({IF IsNoScore(r.score)
                                THEN [acc EXCEPT
                                         !.matched_states =
                                             @ \o Pairs(metrics_def[i], r.matched_states),
                                         !.total_weight = RAdd(@, w)]
                                ELSE MetricsStep(acc, metrics_def[i], r, w) :
                                r \in {score_metric_states(engine, states_def, snap)},
                                w \in {RMul(metric_rule.weight,
                                            GroupBaseWeight(metric_rule.group))}}) :
                      states_def \in {metric_rule.states[timeframe]}}) :
                 metric_rule \in {MetricDefs[metrics_def[i]]}}),
            snap)

RECURSIVE MetricsLoop(_, _, _, _, _, _)
\* "for metric_name, metric_rule in metrics_def.items()"
MetricsLoop(engine, metrics_def, timeframe, i, acc, snap) ==
    IF i > Len(metrics_def) THEN acc
    ELSE MetricsLoop(engine, metrics_def, timeframe, i + 1,
            The({IF timeframe \notin metric_rule.timeframes THEN acc
                 ELSE The({The({IF IsNoScore(r.score) THEN acc
                                ELSE MetricsStep(acc, metrics_def[i], r, w) :
                                r \in {score_metric_states(engine, states_def, snap)},
                                w \in {RMul(metric_rule.weight,
                                            GroupBaseWeight(metric_rule.group))}}) :
                      states_def \in {metric_rule.states[timeframe]}}) :
                 metric_rule \in {MetricDefs[metrics_def[i]]}}),
            snap)

\* the return of _score_timeframe: 0.0 when total_weight == 0
TimeframeResult(acc) ==
    [score |-> IF acc.total_weight.n = 0 THEN Zero
               ELSE RDiv(acc.weighted_sum, acc.total_weight),
     metric_scores |-> acc.metric_scores,
     matched_states |-> acc.matched_states]

\* FundamentalsScoringEngine._score_timeframe
Fundamentals_score_timeframe(metrics_def, timeframe, snap) ==
    The({TimeframeResult(acc) :
         acc \in {MetricsLoop("fundamentals", metrics_def, timeframe, 1, NoMetrics, snap)}})

\* PositionRiskScoringEngine._score_timeframe
PositionRisk_score_timeframe(metrics_def, timeframe, snap) ==
    The({TimeframeResult(acc) :
         acc \in {MetricsLoop("position_risk", metrics_def, timeframe, 1, NoMetrics, snap)}})

\* _score_timeframe of the engine asked
score_timeframe(engine, metrics_def, timeframe, snap) ==
    IF engine = "fundamentals" THEN Fundamentals_score_timeframe(metrics_def, timeframe, snap)
    ELSE PositionRisk_score_timeframe(metrics_def, timeframe, snap)

-----------------------------------------------------------------------------
(* scoring/options_flow_scoring.py: the MINOR states of the options table  *)

\* meta.groups of the options rule table: base_weight by group
OptionsGroupsDef ==
    [PUT_CALL_IMBALANCE |-> [n |-> 1, d |-> 1], UOA |-> [n |-> 6, d |-> 5],
     SKEW |-> [n |-> 9, d |-> 10], GAMMA |-> [n |-> 11, d |-> 10]]

\* state_data.get("group") of each state of StateDefs; "" is a state without
\* a group, "FLOW" a group that meta.groups does not list
StateGroup == <<"PUT_CALL_IMBALANCE", "UOA", "GAMMA", "SKEW", "", "FLOW", "UOA", "SKEW", "GAMMA">>

\* group_weights.get(group_name, 1.0) if group_name else 1.0
OptionsBaseWeight(group_name) ==
    IF group_name \in DOMAIN OptionsGroupsDef THEN OptionsGroupsDef[group_name]
    ELSE [n |-> 1, d |-> 1]

RECURSIVE OptionsStatesLoop(_, _, _, _)
\* "for state_name, state_data in minor_tf.items()": every matched state
\* adds its midpoint times its group's base weight to the accumulator
OptionsStatesLoop(states_def, i, acc, snap) ==
    IF i > Len(states_def) THEN acc
    ELSE OptionsStatesLoop(states_def, i + 1,
            The({IF \E condition \in {Conditions[state_data.condition]},
                       variables \in {BindNames(snap)} :
                       OptionsFlow_safe_eval(condition, variables)
                 THEN [minor_score_accumulator |->
                           RAdd(acc.minor_score_accumulator,
                                RMul(Midpoint(state_data.score_range),
                                     OptionsBaseWeight(StateGroup[states_def[i]]))),
                       matched_states |-> Append(acc.matched_states, states_def[i])]
                 ELSE acc :
                 state_data \in {StateDefs[states_def[i]]}}),
            snap)

\* score, were minor_score_accumulator a field of the engine that a call
\* does not set back to 0: it goes on from the value of the call before
OptionsFlow_score_KeepsAccumulator(states_def, snap, weight) ==
    The({[minor_score |-> acc.minor_score_accumulator,
          final_options_flow_score |-> RMul(acc.minor_score_accumulator, weight),
          matched_states |-> acc.matched_states] :
         acc \in {OptionsStatesLoop(states_def, 1,
                     [minor_score_accumulator |->
                          IF earlier.op = "options_flow_score" THEN earlier.out.minor_score
                          ELSE Zero,
                      matched_states |-> <<>>], snap)}})

\* OptionsFlowScoringEngine.score
OptionsFlow_score(states_def, snap, weight) ==
    The({[minor_score |-> acc.minor_score_accumulator,
          final_options_flow_score |-> RMul(acc.minor_score_accumulator, weight),
          matched_states |-> acc.matched_states] :
         acc \in {OptionsStatesLoop(states_def, 1,
                     [minor_score_accumulator |-> Zero, matched_states |-> <<>>], snap)}})

-----------------------------------------------------------------------------
(* rulebooks/scoring_system.py: the department components                  *)

Ten == [n |-> 10, d |-> 1]
MinusTen == [n |-> -10, d |-> 1]

\* max(-10.0, min(10.0, x))
Clamp(x) == RMax(MinusTen, RMin(Ten, x))

\* score_symbol weighting the raw score before it is clamped
score_symbol_WeightUnclamped(raw_score, weight) ==
    LET raw_score_clamped == Clamp(raw_score)
    IN  [raw_score |-> raw_score_clamped, weight |-> weight,
         weighted_score |-> RMul(raw_score, weight)]

\* BaseScoringComponent.score_symbol, given what _compute_raw_score returned
score_symbol(raw_score, weight) ==
    LET raw_score_clamped == Clamp(raw_score)
    IN  [raw_score |-> raw_score_clamped, weight |-> weight,
         weighted_score |-> RMul(raw_score_clamped, weight)]

\* an indicator of the technical rule table
Indicator(base_impact, tfs, minor, major) ==
    [base_impact |-> base_impact, timeframes |-> tfs,
     states |-> [MINOR |-> minor, MAJOR |-> major]]

IndicatorDefs == <<
    Indicator(6, {"MINOR", "MAJOR"}, <<4>>, <<4>>),
    Indicator(7, {"MINOR", "MAJOR"}, <<1>>, <<1, 2>>),
    Indicator(4, {"MINOR"}, <<4, 7>>, <<>>)
>>

IndicatorIds == 1..Len(IndicatorDefs)

\* the "indicators" dicts of the technical rule tables scored
IndicatorTables ==
    {SortedSeq(S) : S \in {T \in SUBSET IndicatorIds : Cardinality(T) <= MaxIndicators}}

\* an IndicatorSnapshot, or None
Indicators(snap) == [present |-> TRUE, data |-> snap]
NoIndicators == [present |-> FALSE, data |-> <<>>]

RECURSIVE TechnicalStatesLoop(_, _, _, _)
\* "for state_name, state_cfg in states.items()" of _score_indicator_timeframe
TechnicalStatesLoop(states, i, raw_scores, snap) ==
    IF i > Len(states) THEN raw_scores
    ELSE TechnicalStatesLoop(states, i + 1,
            The({IF \E condition \in {Conditions[state_cfg.condition]} :
                       Technical_evaluate_condition(condition, snap)
                 THEN Append(raw_scores, Midpoint(state_cfg.score_range))
                 ELSE raw_scores :
                 state_cfg \in {StateDefs[states[i]]}}),
            snap)

\* TechnicalIndicatorsComponent._score_indicator_timeframe: None without
\* data or configuration, 0.0 when no state matched, else the mean
Technical_score_indicator_timeframe(cfg, indicators, timeframe) ==
    IF ~indicators.present THEN NoScore
    ELSE IF timeframe \notin cfg.timeframes THEN NoScore
    ELSE The({IF raw_scores = <<>> THEN Zero ELSE Mean(raw_scores) :
              raw_scores \in {TechnicalStatesLoop(cfg.states[timeframe], 1, <<>>,
                                                  indicators.data)}})

W_MINOR == [n |-> 6, d |-> 10]
W_MAJOR == [n |-> 4, d |-> 10]

\* combined = w_minor * indicator_score_minor + w_major * indicator_score_major,
\* each where it is not None
Combined(indicator_score_minor, indicator_score_major) ==
    RAdd(IF IsNoScore(indicator_score_minor) THEN Zero
         ELSE RMul(indicator_score_minor, W_MINOR),
         IF IsNoScore(indicator_score_major) THEN Zero
         ELSE RMul(indicator_score_major, W_MAJOR))

RECURSIVE IndicatorsLoop(_, _, _, _, _)
\* "for name, cfg in self.indicator_defs.items()"
IndicatorsLoop(indicator_defs, i, acc, minor, major) ==
    IF i > Len(indicator_defs) THEN acc
    ELSE IndicatorsLoop(indicator_defs, i + 1,
            The({[total_score |-> RAdd(acc.total_score,
                                       RMul(Combined(indicator_score_minor,
                                                     indicator_score_major),
                                            [n |-> cfg.base_impact, d |-> 1])),
                  total_weight |-> RAdd(acc.total_weight,
                                        RAbs([n |-> cfg.base_impact, d |-> 1]))] :
                 cfg \in {IndicatorDefs[indicator_defs[i]]},
                 indicator_score_minor \in
                     {The({Technical_score_indicator_timeframe(c, minor, "MINOR") :
                           c \in {IndicatorDefs[indicator_defs[i]]}})},
                 indicator_score_major \in
                     {The({Technical_score_indicator_timeframe(c, major, "MAJOR") :
                           c \in {IndicatorDefs[indicator_defs[i]]}})}}),
            minor, major)

\* TechnicalIndicatorsComponent._compute_raw_score
Technical_compute_raw_score(indicator_defs, minor, major) ==
    IF ~minor.present /\ ~major.present
    THEN [raw |-> Zero, reason |-> "no_indicator_data"]
    ELSE The({[raw |-> Clamp(IF acc.total_weight.n = 0 THEN Zero
                             ELSE RDiv(acc.total_score, acc.total_weight)),
               reason |-> ""] :
              acc \in {IndicatorsLoop(indicator_defs, 1,
                          [total_score |-> Zero, total_weight |-> Zero], minor, major)}})

\* the values a component's _compute_raw_score is taken to return
RawScores == {Rat(-25, 2), MinusTen, Rat(-3, 1), Zero, Rat(5, 1), Ten, Rat(21, 2), Rat(30, 1)}

\* the weights a component is constructed with
Weights == {Rat(26, 100), Rat(12, 100), Rat(5, 100), Rat(3, 2), Rat(-1, 2)}

-----------------------------------------------------------------------------
(* rulebooks/scoring_system.py: MasterScoringEngine                        *)

\* a component of the master engine: its name and its weight
Component(name, wn, wd) == [name |-> name, weight |-> [n |-> wn, d |-> wd]]

\* the six departments, were the technical weight 0.36
DefaultComponents_HeavyTechnical == <<
    Component("NEWS", 11, 50), Component("TECHNICAL", 18, 50),
    Component("MACRO", 7, 50), Component("SECTOR", 7, 50),
    Component("OPTIONS_FLOW", 3, 25), Component("MICRO_COMPANY", 3, 25)
>>

\* the six departments build_default_master_engine constructs, in the order
\* of _all_components
DefaultComponents == <<
    Component("NEWS", 11, 50), Component("TECHNICAL", 13, 50),
    Component("MACRO", 7, 50), Component("SECTOR", 7, 50),
    Component("OPTIONS_FLOW", 3, 25), Component("MICRO_COMPANY", 3, 25)
>>

\* the extra_components an engine is constructed with
ExtraComponents == {<<>>, <<Component("REGIME_CONSISTENCY", 3, 2)>>}

ComponentNames ==
    {"NEWS", "TECHNICAL", "MACRO", "SECTOR", "OPTIONS_FLOW", "MICRO_COMPANY",
     "REGIME_CONSISTENCY"}

\* a symbol's state, as the raw score each component computes from it
Uniform(n, d) == [c \in ComponentNames |-> [n |-> n, d |-> d]]

SymbolStates ==
    {Uniform(-30, 1), Uniform(-1, 2), Uniform(1, 2), Uniform(5, 1),
     [Uniform(0, 1) EXCEPT !["TECHNICAL"] = [n |-> 10, d |-> 1],
                           !["NEWS"] = [n |-> -3, d |-> 1]]}

\* universe.symbols: the symbols in the order of the dict, by position
Universes == UNION {[1..k -> SymbolStates] : k \in 0..MaxSymbols}

RECURSIVE ComponentsLoop(_, _, _, _)
\* "for component in self._all_components: cs = component.score_symbol(...)"
ComponentsLoop(components, i, component_scores, state) ==
    IF i > Len(components) THEN component_scores
    ELSE ComponentsLoop(components, i + 1,
            Append(component_scores,
                   [component_name |-> components[i].name]
                      @@ score_symbol(state[components[i].name], components[i].weight)),
            state)

RECURSIVE SumWeighted(_)
\* sum(c.weighted_score for c in component_scores)
SumWeighted(component_scores) ==
    IF component_scores = <<>> THEN Zero
    ELSE RAdd(component_scores[1].weighted_score, SumWeighted(Tail(component_scores)))

\* the direction score_universe gives a total
UniverseDirection(total) ==
    IF RLt([n |-> 1, d |-> 2], total) THEN "LONG"
    ELSE IF RLt(total, [n |-> -1, d |-> 2]) THEN "SHORT"
    ELSE "NEUTRAL"

\* the SymbolScoreResult of one symbol, were the total clamped to the scale
SymbolResult_Clamped(symbol, component_scores) ==
    The({[symbol |-> symbol, total_score |-> total,
          direction |-> UniverseDirection(total), components |-> component_scores] :
         total \in {RMax(MinusTen, RMin(Ten, SumWeighted(component_scores)))}})

\* the SymbolScoreResult of one symbol
SymbolResult(symbol, component_scores) ==
    The({[symbol |-> symbol, total_score |-> total,
          direction |-> UniverseDirection(total), components |-> component_scores] :
         total \in {SumWeighted(component_scores)}})

RECURSIVE SymbolsLoop(_, _, _, _)
\* "for symbol, state in universe.symbols.items()"
SymbolsLoop(components, universe, i, results) ==
    IF i > Len(universe) THEN results
    ELSE SymbolsLoop(components, universe, i + 1,
            Append(results,
                   The({SymbolResult(i, component_scores) :
                        component_scores \in
                            {ComponentsLoop(components, 1, <<>>, universe[i])}})))

\* list.sort(key=..., reverse=True) puts x into a list already sorted: after
\* every entry whose key is not smaller (the sort is stable).  An entry is
\* an item with its key.
InsertDescending(x, sorted) ==
    The({SubSeq(sorted, 1, k) \o <<x>> \o SubSeq(sorted, k + 1, Len(sorted)) :
         k \in {j \in 0..Len(sorted) :
                   /\ \A h \in 1..j : ~RLt(sorted[h].key, x.key)
                   /\ \A h \in (j + 1)..Len(sorted) : RLt(sorted[h].key, x.key)}})

RECURSIVE SortDescending(_, _, _)
\* list.sort(key=..., reverse=True), on the items with their keys
SortDescending(list, i, sorted) ==
    IF i > Len(list) THEN sorted
    ELSE SortDescending(list, i + 1, InsertDescending(list[i], sorted))

\* the items of a list of entries
Items(entries) == [i \in 1..Len(entries) |-> entries[i].item]

\* MasterScoringEngine.score_universe of the engine with these extra components
score_universe(extra_components, universe) ==
    The({Items(SortDescending(
                 [i \in 1..Len(results) |->
                     [key |-> RAbs(results[i].total_score), item |-> results[i]]],
                 1, <<>>)) :
         results \in {SymbolsLoop(DefaultComponents \o extra_components, universe,
                                  1, <<>>)}})

\* the departments for which a refresh trigger occurs in a cycle
TriggerSets == {{}, {"TECHNICAL"}, ComponentNames}

-----------------------------------------------------------------------------
(* scoring/master_scoring.py: MasterScoringEngine                          *)

\* self.module_order
module_order ==
    <<"macro", "sector", "news", "technical", "options", "pattern",
      "strategy_context", "position_risk">>

\* self.module_score_keys
module_score_keys ==
    [macro |-> "final_macro_score", sector |-> "final_sector_macro_score",
     news |-> "final_news_score", technical |-> "final_technical_score",
     options |-> "final_options_score", pattern |-> "final_pattern_price_score",
     strategy_context |-> "final_strategy_context_score",
     position_risk |-> "final_position_risk_score"]

\* DEFAULT_CONFIG
DEFAULT_CONFIG ==
    [use_macro |-> TRUE, use_sector |-> TRUE, use_news |-> TRUE,
     use_technical |-> TRUE, use_options |-> TRUE, use_pattern |-> TRUE,
     use_strategy_context |-> TRUE, use_position_risk |-> TRUE,
     direction_threshold |-> [n |-> 2, d |-> 1]]

\* self.config: DEFAULT_CONFIG updated with the config the engine is given
Configs ==
    {[[DEFAULT_CONFIG EXCEPT !.direction_threshold = t]
         EXCEPT !.use_news = use_news, !.use_macro = use_macro] :
       t \in {[n |-> 2, d |-> 1], [n |-> 4, d |-> 1]},
       use_news \in BOOLEAN, use_macro \in BOOLEAN}

\* the entry of a module in module_results: no entry, or the result dict,
\* a function from its keys to a score or to None (NoScore)
NoEntry == [absent |-> TRUE]
ResultDict(keys) == [absent |-> FALSE, dict |-> keys]
Scored(module_name, n) ==
    ResultDict((module_score_keys[module_name] :> [n |-> n, d |-> 1])
                  @@ ("matched_states" :> NoScore))
Entries(module_name) ==
    {NoEntry,
     ResultDict(<<>>),
     ResultDict("matched_states" :> NoScore),
     ResultDict(module_score_keys[module_name] :> NoScore)}
      \cup {Scored(module_name, n) : n \in {-12, -2, 0, 2, 6, 25}}

\* the module_results score_symbol is called with
ModuleResults ==
    {[module_name \in DOMAIN module_score_keys |->
         CASE module_name = "macro" -> macro
           [] module_name = "news" -> news
           [] module_name = "technical" -> technical
           [] module_name = "position_risk" -> position_risk
           [] OTHER -> NoEntry] :
       macro \in Entries("macro"), news \in Entries("news"),
       technical \in {NoEntry, Scored("technical", 6), Scored("technical", -2)},
       position_risk \in {NoEntry, Scored("position_risk", 2)}}

\* MasterScoringEngine._is_module_enabled
is_module_enabled(config, module_name) ==
    LET mapping == [macro |-> "use_macro", sector |-> "use_sector",
                    news |-> "use_news", technical |-> "use_technical",
                    options |-> "use_options", pattern |-> "use_pattern",
                    strategy_context |-> "use_strategy_context",
                    position_risk |-> "use_position_risk"]
    IN  IF module_name \notin DOMAIN mapping THEN FALSE
        ELSE IF mapping[module_name] \in DOMAIN config
             THEN config[mapping[module_name]] ELSE TRUE

\* MasterScoringEngine._clamp
clamp(value, low, high) == RMax(low, RMin(high, value))

\* _direction_from_score, were its comparisons strict
direction_from_score_Strict(config, score) ==
    IF RLt(config.direction_threshold, score) THEN "LONG"
    ELSE IF RLt(score, [n |-> -config.direction_threshold.n,
                       d |-> config.direction_threshold.d]) THEN "SHORT"
    ELSE "NEUTRAL"

\* MasterScoringEngine._direction_from_score
direction_from_score(config, score) ==
    IF RLe(config.direction_threshold, score) THEN "LONG"
    ELSE IF RLe(score, [n |-> -config.direction_threshold.n,
                       d |-> config.direction_threshold.d]) THEN "SHORT"
    ELSE "NEUTRAL"

\* the state of score_symbol's loop before any module
NoModules == [module_scores |-> <<>>, used_modules |-> <<>>, total |-> Zero, count |-> 0]

\* one pass of the loop, were a department without a score counted as 0
ModuleStep_CountsMissing(acc, config, module_name, entry) ==
    IF \/ ~is_module_enabled(config, module_name)
       \/ entry.absent
       \/ module_score_keys[module_name] \notin DOMAIN entry.dict
       \/ IsNoScore(entry.dict[module_score_keys[module_name]])
    THEN [acc EXCEPT !.count = @ + 1]
    ELSE The({[module_scores |-> acc.module_scores @@ (module_name :> clamped),
               used_modules |-> Append(acc.used_modules, module_name),
               total |-> RAdd(acc.total, clamped),
               count |-> acc.count + 1] :
              clamped \in {clamp(entry.dict[module_score_keys[module_name]],
                                 MinusTen, Ten)}})

\* one pass of "for module_name in self.module_order"
ModuleStep(acc, config, module_name, entry) ==
    IF ~is_module_enabled(config, module_name) THEN acc
    ELSE IF entry.absent \/ DOMAIN entry.dict = {} THEN acc
    ELSE IF module_name \notin DOMAIN module_score_keys THEN acc
    ELSE IF module_score_keys[module_name] \notin DOMAIN entry.dict THEN acc
    ELSE IF IsNoScore(entry.dict[module_score_keys[module_name]]) THEN acc
    ELSE The({[module_scores |-> acc.module_scores @@ (module_name :> clamped),
               used_modules |-> Append(acc.used_modules, module_name),
               total |-> RAdd(acc.total, clamped),
               count |-> acc.count + 1] :
              clamped \in {clamp(entry.dict[module_score_keys[module_name]],
                                 MinusTen, Ten)}})

RECURSIVE ModulesLoop(_, _, _, _)
\* "for module_name in self.module_order"
ModulesLoop(config, module_results, i, acc) ==
    IF i > Len(module_order) THEN acc
    ELSE ModulesLoop(config, module_results, i + 1,
            ModuleStep(acc, config, module_order[i], module_results[module_order[i]]))

\* the MasterScoreResult of a loop that ended in acc
MasterScoreResult(symbol, config, acc) ==
    The({[symbol |-> symbol, module_scores |-> acc.module_scores,
          final_master_score |-> final_score,
          direction |-> direction_from_score(config, final_score),
          abs_strength |-> RAbs(final_score), used_modules |-> acc.used_modules] :
         final_score \in
           {clamp(IF acc.count = 0 THEN Zero
                  ELSE RDiv(acc.total, [n |-> acc.count, d |-> 1]),
                  MinusTen, Ten)}})

\* MasterScoringEngine.score_symbol (scoring/master_scoring.py)
Master_score_symbol(symbol, config, module_results) ==
    The({MasterScoreResult(symbol, config, acc) :
         acc \in {ModulesLoop(config, module_results, 1, NoModules)}})

\* module_results with a macro score only
OnlyMacro(n) ==
    [module_name \in DOMAIN module_score_keys |->
        IF module_name = "macro" THEN Scored("macro", n) ELSE NoEntry]

\* the symbol_results rank_symbols is called with: the results of
\* score_symbol by symbol, the symbols in the order of the dict
SymbolResults ==
    UNION {{[symbol \in 1..k |-> Master_score_symbol(symbol, DEFAULT_CONFIG, OnlyMacro(n[symbol]))] :
              n \in [1..k -> {-12, -2, 0, 2, 6}]} : k \in 0..MaxSymbols}

\* the min_abs_score rank_symbols is called with, 0.0 by default
MinAbsScores == {Zero, [n |-> 2, d |-> 1], [n |-> 7, d |-> 1]}

RECURSIVE FilterLoop(_, _, _, _)
\* "for symbol, result in symbol_results.items()", each kept entry with the
\* key it is sorted by
FilterLoop(symbol_results, min_abs_score, i, filtered) ==
    IF i > Len(symbol_results) THEN filtered
    ELSE FilterLoop(symbol_results, min_abs_score, i + 1,
            IF RLe(min_abs_score, symbol_results[i].abs_strength)
            THEN Append(filtered, [key |-> symbol_results[i].abs_strength,
                                   item |-> <<i, symbol_results[i]>>])
            ELSE filtered)

\* rank_symbols, were the entries kept in the order of the dict
rank_symbols_Unsorted(symbol_results, min_abs_score) ==
    Items(FilterLoop(symbol_results, min_abs_score, 1, <<>>))

\* MasterScoringEngine.rank_symbols
rank_symbols(symbol_results, min_abs_score) ==
    Items(SortDescending(FilterLoop(symbol_results, min_abs_score, 1, <<>>), 1, <<>>))

-----------------------------------------------------------------------------
(* _combine_minor_major of the fundamentals, position-risk and sentiment   *)
(* engines                                                                 *)

\* 1e-6: a timeframe score counts when its magnitude is above it
Epsilon == [n |-> 1, d |-> 1000000]

\* "has_minor = abs(minor) > 1e-6", "has_major = abs(major) > 1e-6"
HasScore(x) == RLt(Epsilon, RAbs(x))

\* the fundamentals blend, were the weights of the timeframes exchanged
Fundamentals_combine_minor_major_Exchanged(minor, major) ==
    IF HasScore(minor) /\ HasScore(major)
    THEN RAdd(RMul(major, [n |-> 3, d |-> 10]), RMul(minor, [n |-> 7, d |-> 10]))
    ELSE IF HasScore(major) THEN major
    ELSE IF HasScore(minor) THEN minor
    ELSE Zero

\* FundamentalsScoringEngine._combine_minor_major
Fundamentals_combine_minor_major(minor, major) ==
    IF HasScore(minor) /\ HasScore(major)
    THEN RAdd(RMul(major, [n |-> 7, d |-> 10]), RMul(minor, [n |-> 3, d |-> 10]))
    ELSE IF HasScore(major) THEN major
    ELSE IF HasScore(minor) THEN minor
    ELSE Zero

\* the position-risk combination, were a timeframe that scored 0 blended in
\* like any other
PositionRisk_combine_minor_major_BlendsZero(minor, major) ==
    IF HasScore(minor) \/ HasScore(major)
    THEN RAdd(RMul(minor, [n |-> 6, d |-> 10]), RMul(major, [n |-> 4, d |-> 10]))
    ELSE Zero

\* PositionRiskScoringEngine._combine_minor_major
PositionRisk_combine_minor_major(minor, major) ==
    IF HasScore(minor) /\ HasScore(major)
    THEN RAdd(RMul(minor, [n |-> 6, d |-> 10]), RMul(major, [n |-> 4, d |-> 10]))
    ELSE IF HasScore(minor) THEN minor
    ELSE IF HasScore(major) THEN major
    ELSE Zero

\* SentimentScoringEngine._combine_minor_major
Sentiment_combine_minor_major(minor, major) ==
    IF HasScore(minor) /\ HasScore(major)
    THEN RAdd(RMul([n |-> 6, d |-> 10], minor), RMul([n |-> 4, d |-> 10], major))
    ELSE IF HasScore(major) THEN major
    ELSE IF HasScore(minor) THEN minor
    ELSE Zero

\* the _combine_minor_major of an engine
combine_minor_major(engine, minor, major) ==
    CASE engine = "fundamentals" -> Fundamentals_combine_minor_major(minor, major)
      [] engine = "position_risk" -> PositionRisk_combine_minor_major(minor, major)
      [] engine = "sentiment" -> Sentiment_combine_minor_major(minor, major)

\* the timeframe scores the engines combine
TimeframeScores ==
    {Zero, [n |-> 1, d |-> 2000000], [n |-> -1, d |-> 2000000], Epsilon,
     [n |-> 3, d |-> 1], [n |-> -4, d |-> 1], [n |-> 10, d |-> 1]}

-----------------------------------------------------------------------------
(* scoring/position_risk_scoring.py: PositionRiskScoringEngine.score       *)
(*                                                                         *)
(* A dict is a function whose Absent values stand for the keys it does not *)
(* hold.  The account_state of a call is the snapshot; the position_state  *)
(* is the argument that changes from one symbol to the next.               *)

PositionVars == {"has_open_position", "rr_multiple_live"}

\* position_state {} (None is replaced by {}) and that of an open position
NoPosition == [var \in PositionVars |-> Absent]
OpenPosition == [has_open_position |-> Bool(TRUE), rr_multiple_live |-> Num(3, 2)]
PositionStates == {NoPosition, OpenPosition}

EmptyDict == [key \in {} |-> Absent]

Has(d, key) == key \in DOMAIN d /\ d[key].t # "absent"

\* d.update(e)
Update(d, e) ==
    [key \in DOMAIN d \cup DOMAIN e |->
        IF Has(e, key) THEN e[key] ELSE IF key \in DOMAIN d THEN d[key] ELSE Absent]

\* d.setdefault(key, v)
SetDefault(d, key, v) == IF Has(d, key) THEN d ELSE Update(d, key :> v)

\* float(account_state.get(key, default) or default)
FloatOr(d, key, default) ==
    IF Has(d, key) /\ Truthy(d[key]) THEN [n |-> d[key].n, d |-> d[key].d] ELSE default

\* a number, already in lowest terms, as a value
AsNum(x) == [t |-> "num", n |-> x.n, d |-> x.d]

\* daily_pl_abs, daily_pl_pct and capital_usage_pct from the account's fields
DerivedFrom(equity, realized, unrealized, open_val, tradable_equity_pct) ==
    The({[daily_pl_abs |-> AsNum(daily_pl_abs),
          daily_pl_pct |->
             The({AsNum(daily_pl_pct) :
                  daily_pl_pct \in {IF equity # Zero THEN RDiv(daily_pl_abs, equity)
                                    ELSE Zero}}),
          capital_usage_pct |->
             The({AsNum(capital_usage_pct) :
                  capital_usage_pct \in {IF denom_capital # Zero
                                         THEN RDiv(open_val, denom_capital) ELSE Zero}})] :
         daily_pl_abs \in {RAdd(realized, unrealized)},
         denom_capital \in {IF equity # Zero THEN RMul(equity, tradable_equity_pct)
                            ELSE Zero}})

\* the derived fields of _build_snapshot_env
DerivedFields(account_state) ==
    The({DerivedFrom(equity, realized, unrealized, open_val, tradable_equity_pct) :
         equity \in {FloatOr(account_state, "equity", Zero)},
         realized \in {FloatOr(account_state, "realized_pnl_today", Zero)},
         unrealized \in {FloatOr(account_state, "unrealized_pnl_today", Zero)},
         open_val \in {FloatOr(account_state, "open_positions_value", Zero)},
         tradable_equity_pct \in {FloatOr(account_state, "tradable_equity_pct",
                                          [n |-> 1, d |-> 1])}})

RECURSIVE UpdateAll(_, _)
\* d.update(e) for each e of dicts in turn
UpdateAll(d, dicts) ==
    IF dicts = <<>> THEN d ELSE UpdateAll(Update(d, Head(dicts)), Tail(dicts))

\* the keys _build_snapshot_env sets when the position gives none
Defaults ==
    <<<<"is_open", Bool(FALSE)>>, <<"direction", None>>,
      <<"symbol_risk_pct_of_equity", Num(0, 1)>>, <<"open_pnl_abs", Num(0, 1)>>,
      <<"open_pnl_pct", Num(0, 1)>>, <<"max_favorable_excursion_pct", Num(0, 1)>>,
      <<"max_adverse_excursion_pct", Num(0, 1)>>>>

RECURSIVE SetDefaults(_, _)
\* d.setdefault(key, v) for each (key, v) of defaults in turn
SetDefaults(d, defaults) ==
    IF defaults = <<>> THEN d
    ELSE SetDefaults(SetDefault(d, Head(defaults)[1], Head(defaults)[2]), Tail(defaults))

\* the dict "snapshot" of _build_snapshot_env at its return, begun as base
FilledSnapshot(base, account_state, position_state) ==
    The({The({SetDefaults(merged, Defaults) :
              merged \in {UpdateAll(base, <<account_state, position_state, derived>>)}}) :
         derived \in {DerivedFields(account_state)}})

\* _build_snapshot_env with "snapshot = account_state" for "snapshot = {}":
\* the fields are written into the caller's dict
PositionRisk_build_snapshot_env_InPlace(account_state, position_state) ==
    The({[snapshot |-> filled, account_state |-> filled] :
         filled \in {FilledSnapshot(account_state, account_state, position_state)}})

\* PositionRiskScoringEngine._build_snapshot_env: the dict it returns and the
\* caller's account_state as the call leaves it
PositionRisk_build_snapshot_env(account_state, position_state) ==
    The({[snapshot |-> filled, account_state |-> account_state] :
         filled \in {FilledSnapshot(EmptyDict, account_state, position_state)}})

RECURSIVE DictOfScores(_, _)
\* the dict a list of (metric, score) pairs makes: a later pair of a metric
\* replaces the value of the earlier one, in the earlier one's place
DictOfScores(pairs, dict) ==
    IF pairs = <<>> THEN dict
    ELSE DictOfScores(Tail(pairs),
            IF \E i \in 1..Len(dict) : dict[i][1] = Head(pairs)[1]
            THEN [i \in 1..Len(dict) |->
                     IF dict[i][1] = Head(pairs)[1] THEN Head(pairs) ELSE dict[i]]
            ELSE Append(dict, Head(pairs)))

\* self.weight of PositionRiskScoringEngine
PositionRiskWeight == [n |-> 7, d |-> 10]

\* score once _build_snapshot_env has returned env
PositionRiskResult(metrics_def, env) ==
    The({[result |->
             [minor_score |-> minor.score,
              major_score |-> major.score,
              final_position_risk_score |->
                  RMul(PositionRisk_combine_minor_major(minor.score, major.score),
                       PositionRiskWeight),
              metric_scores |-> DictOfScores(minor.metric_scores \o major.metric_scores, <<>>),
              matched_states |-> minor.matched_states \o major.matched_states],
          account_state |-> env.account_state] :
         minor \in {PositionRisk_score_timeframe(metrics_def, "MINOR", env.snapshot)},
         major \in {PositionRisk_score_timeframe(metrics_def, "MAJOR", env.snapshot)}})

\* PositionRiskScoringEngine.score: the dict it returns and the caller's
\* account_state as the call leaves it
PositionRisk_score(metrics_def, account_state, position_state) ==
    The({PositionRiskResult(metrics_def, env) :
         env \in {PositionRisk_build_snapshot_env(account_state, position_state)}})

-----------------------------------------------------------------------------
(* scoring/price_action_scoring.py: PriceActionScoringEngine               *)

\* the characters of the strings the engine and its rule table hold
Spelling ==
    ("hh + hl" :>
       <<"h", "h", " ", "+", " ", "h", "l">>) @@
    ("structure == 'hh_hl'" :>
       <<"s", "t", "r", "u", "c", "t", "u", "r", "e", " ", "=", "=", " ", "'", "h", "h", "_", "h", "l", "'">>) @@
    ("higher highs" :>
       <<"h", "i", "g", "h", "e", "r", " ", "h", "i", "g", "h", "s">>) @@
    ("lh + ll" :>
       <<"l", "h", " ", "+", " ", "l", "l">>) @@
    ("structure == 'lh_ll'" :>
       <<"s", "t", "r", "u", "c", "t", "u", "r", "e", " ", "=", "=", " ", "'", "l", "h", "_", "l", "l", "'">>) @@
    ("lower lows" :>
       <<"l", "o", "w", "e", "r", " ", "l", "o", "w", "s">>) @@
    ("close above well-defined resistance" :>
       <<"c", "l", "o", "s", "e", " ", "a", "b", "o", "v", "e", " ", "w", "e", "l", "l", "-", "d", "e", "f", "i", "n", "e", "d", " ", "r", "e", "s", "i", "s", "t", "a", "n", "c", "e">>) @@
    ("break above resistance" :>
       <<"b", "r", "e", "a", "k", " ", "a", "b", "o", "v", "e", " ", "r", "e", "s", "i", "s", "t", "a", "n", "c", "e">>) @@
    ("close below well-defined support" :>
       <<"c", "l", "o", "s", "e", " ", "b", "e", "l", "o", "w", " ", "w", "e", "l", "l", "-", "d", "e", "f", "i", "n", "e", "d", " ", "s", "u", "p", "p", "o", "r", "t">>) @@
    ("break below support" :>
       <<"b", "r", "e", "a", "k", " ", "b", "e", "l", "o", "w", " ", "s", "u", "p", "p", "o", "r", "t">>) @@
    ("gap up" :>
       <<"g", "a", "p", " ", "u", "p">>) @@
    ("follow through" :>
       <<"f", "o", "l", "l", "o", "w", " ", "t", "h", "r", "o", "u", "g", "h">>) @@
    ("gap up then price falls back" :>
       <<"g", "a", "p", " ", "u", "p", " ", "t", "h", "e", "n", " ", "p", "r", "i", "c", "e", " ", "f", "a", "l", "l", "s", " ", "b", "a", "c", "k">>) @@
    ("gap up filled" :>
       <<"g", "a", "p", " ", "u", "p", " ", "f", "i", "l", "l", "e", "d">>) @@
    ("gap down" :>
       <<"g", "a", "p", " ", "d", "o", "w", "n">>) @@
    ("gap down then reclaimed" :>
       <<"g", "a", "p", " ", "d", "o", "w", "n", " ", "t", "h", "e", "n", " ", "r", "e", "c", "l", "a", "i", "m", "e", "d">>) @@
    ("gap down filled and reclaimed" :>
       <<"g", "a", "p", " ", "d", "o", "w", "n", " ", "f", "i", "l", "l", "e", "d", " ", "a", "n", "d", " ", "r", "e", "c", "l", "a", "i", "m", "e", "d">>) @@
    ("bullish engulfing" :>
       <<"b", "u", "l", "l", "i", "s", "h", " ", "e", "n", "g", "u", "l", "f", "i", "n", "g">>) @@
    ("candle_pattern == 'bullish_engulfing'" :>
       <<"c", "a", "n", "d", "l", "e", "_", "p", "a", "t", "t", "e", "r", "n", " ", "=", "=", " ", "'", "b", "u", "l", "l", "i", "s", "h", "_", "e", "n", "g", "u", "l", "f", "i", "n", "g", "'">>) @@
    ("bearish engulfing" :>
       <<"b", "e", "a", "r", "i", "s", "h", " ", "e", "n", "g", "u", "l", "f", "i", "n", "g">>) @@
    ("candle_pattern == 'bearish_engulfing'" :>
       <<"c", "a", "n", "d", "l", "e", "_", "p", "a", "t", "t", "e", "r", "n", " ", "=", "=", " ", "'", "b", "e", "a", "r", "i", "s", "h", "_", "e", "n", "g", "u", "l", "f", "i", "n", "g", "'">>) @@
    ("hammer" :>
       <<"h", "a", "m", "m", "e", "r">>) @@
    ("shooting star" :>
       <<"s", "h", "o", "o", "t", "i", "n", "g", " ", "s", "t", "a", "r">>) @@
    ("failed breakout" :>
       <<"f", "a", "i", "l", "e", "d", " ", "b", "r", "e", "a", "k", "o", "u", "t">>) @@
    ("failed_breakout" :>
       <<"f", "a", "i", "l", "e", "d", "_", "b", "r", "e", "a", "k", "o", "u", "t">>) @@
    ("failed breakdown" :>
       <<"f", "a", "i", "l", "e", "d", " ", "b", "r", "e", "a", "k", "d", "o", "w", "n">>) @@
    ("failed_breakdown" :>
       <<"f", "a", "i", "l", "e", "d", "_", "b", "r", "e", "a", "k", "d", "o", "w", "n">>) @@
    (" == " :>
       <<" ", "=", "=", " ">>) @@
    (" and " :>
       <<" ", "a", "n", "d", " ">>) @@
    (" or " :>
       <<" ", "o", "r", " ">>) @@
    ("UPTREND" :>
       <<"U", "P", "T", "R", "E", "N", "D">>) @@
    ("HH_HL" :>
       <<"H", "H", "_", "H", "L">>) @@
    ("DOWNTREND" :>
       <<"D", "O", "W", "N", "T", "R", "E", "N", "D">>) @@
    ("LH_LL" :>
       <<"L", "H", "_", "L", "L">>) @@
    ("UP" :>
       <<"U", "P">>) @@
    ("DOWN" :>
       <<"D", "O", "W", "N">>) @@
    ("BULL_ENG" :>
       <<"B", "U", "L", "L", "_", "E", "N", "G">>) @@
    ("BULLISH_ENGULFING" :>
       <<"B", "U", "L", "L", "I", "S", "H", "_", "E", "N", "G", "U", "L", "F", "I", "N", "G">>) @@
    ("BEAR_ENG" :>
       <<"B", "E", "A", "R", "_", "E", "N", "G">>) @@
    ("BEARISH_ENGULFING" :>
       <<"B", "E", "A", "R", "I", "S", "H", "_", "E", "N", "G", "U", "L", "F", "I", "N", "G">>) @@
    ("HAMMER" :>
       <<"H", "A", "M", "M", "E", "R">>) @@
    ("SHOOTING_STAR" :>
       <<"S", "H", "O", "O", "T", "I", "N", "G", "_", "S", "T", "A", "R">>) @@
    ("structure" :>
       <<"s", "t", "r", "u", "c", "t", "u", "r", "e">>) @@
    ("swings_count" :>
       <<"s", "w", "i", "n", "g", "s", "_", "c", "o", "u", "n", "t">>) @@
    ("candle_pattern" :>
       <<"c", "a", "n", "d", "l", "e", "_", "p", "a", "t", "t", "e", "r", "n">>) @@
    ("pattern" :>
       <<"p", "a", "t", "t", "e", "r", "n">>) @@
    ("breakout" :>
       <<"b", "r", "e", "a", "k", "o", "u", "t">>) @@
    ("volume_confirmation" :>
       <<"v", "o", "l", "u", "m", "e", "_", "c", "o", "n", "f", "i", "r", "m", "a", "t", "i", "o", "n">>) @@
    ("gap_direction" :>
       <<"g", "a", "p", "_", "d", "i", "r", "e", "c", "t", "i", "o", "n">>) @@
    ("gap_follow_through" :>
       <<"g", "a", "p", "_", "f", "o", "l", "l", "o", "w", "_", "t", "h", "r", "o", "u", "g", "h">>) @@
    ("gap_filled" :>
       <<"g", "a", "p", "_", "f", "i", "l", "l", "e", "d">>) @@
    ("rejected" :>
       <<"r", "e", "j", "e", "c", "t", "e", "d">>) @@
    ("reclaimed" :>
       <<"r", "e", "c", "l", "a", "i", "m", "e", "d">>) @@
    ("failed_breakdown" :>
       <<"f", "a", "i", "l", "e", "d", "_", "b", "r", "e", "a", "k", "d", "o", "w", "n">>) @@
    ("double_top" :>
       <<"d", "o", "u", "b", "l", "e", "_", "t", "o", "p">>) @@
    ("DOUBLE_TOP" :>
       <<"D", "O", "U", "B", "L", "E", "_", "T", "O", "P">>) @@
    ("structure == 'HH_HL' AND swings_count >= 3" :>
       <<"s", "t", "r", "u", "c", "t", "u", "r", "e", " ", "=", "=", " ", "'", "H", "H", "_", "H", "L", "'", " ", "A", "N", "D", " ", "s", "w", "i", "n", "g", "s", "_", "c", "o", "u", "n", "t", " ", ">", "=", " ", "3">>) @@
    ("structure == 'HH_HL' AND swings_count == 2" :>
       <<"s", "t", "r", "u", "c", "t", "u", "r", "e", " ", "=", "=", " ", "'", "H", "H", "_", "H", "L", "'", " ", "A", "N", "D", " ", "s", "w", "i", "n", "g", "s", "_", "c", "o", "u", "n", "t", " ", "=", "=", " ", "2">>) @@
    ("structure == 'LH_LL' AND swings_count >= 3" :>
       <<"s", "t", "r", "u", "c", "t", "u", "r", "e", " ", "=", "=", " ", "'", "L", "H", "_", "L", "L", "'", " ", "A", "N", "D", " ", "s", "w", "i", "n", "g", "s", "_", "c", "o", "u", "n", "t", " ", ">", "=", " ", "3">>) @@
    ("daily_structure == 'HH_HL' AND swings_count >= 4" :>
       <<"d", "a", "i", "l", "y", "_", "s", "t", "r", "u", "c", "t", "u", "r", "e", " ", "=", "=", " ", "'", "H", "H", "_", "H", "L", "'", " ", "A", "N", "D", " ", "s", "w", "i", "n", "g", "s", "_", "c", "o", "u", "n", "t", " ", ">", "=", " ", "4">>) @@
    ("pattern == 'DOUBLE_TOP' AND neckline_broken == False" :>
       <<"p", "a", "t", "t", "e", "r", "n", " ", "=", "=", " ", "'", "D", "O", "U", "B", "L", "E", "_", "T", "O", "P", "'", " ", "A", "N", "D", " ", "n", "e", "c", "k", "l", "i", "n", "e", "_", "b", "r", "o", "k", "e", "n", " ", "=", "=", " ", "F", "a", "l", "s", "e">>) @@
    ("candle_pattern == 'HAMMER' AND near_support == True AND after_downmove == True" :>
       <<"c", "a", "n", "d", "l", "e", "_", "p", "a", "t", "t", "e", "r", "n", " ", "=", "=", " ", "'", "H", "A", "M", "M", "E", "R", "'", " ", "A", "N", "D", " ", "n", "e", "a", "r", "_", "s", "u", "p", "p", "o", "r", "t", " ", "=", "=", " ", "T", "r", "u", "e", " ", "A", "N", "D", " ", "a", "f", "t", "e", "r", "_", "d", "o", "w", "n", "m", "o", "v", "e", " ", "=", "=", " ", "T", "r", "u", "e">>) @@
    ("pattern == 'DOUBLE_TOP'" :>
       <<"p", "a", "t", "t", "e", "r", "n", " ", "=", "=", " ", "'", "D", "O", "U", "B", "L", "E", "_", "T", "O", "P", "'">>) @@
    ("pattern == 'DOUBLE_TOP' OR candle_pattern == 'HAMMER'" :>
       <<"p", "a", "t", "t", "e", "r", "n", " ", "=", "=", " ", "'", "D", "O", "U", "B", "L", "E", "_", "T", "O", "P", "'", " ", "O", "R", " ", "c", "a", "n", "d", "l", "e", "_", "p", "a", "t", "t", "e", "r", "n", " ", "=", "=", " ", "'", "H", "A", "M", "M", "E", "R", "'">>)

\* a str, as the sequence of its characters
Chars(s) == Spelling[s]

LowerCase ==
    [c \in {"A", "B", "C", "D", "E", "F", "G", "H", "I", "J", "K", "L", "M", "N",
            "O", "P", "Q", "R", "S", "T", "U", "V", "W", "X", "Y", "Z"} |->
       CASE c = "A" -> "a" [] c = "B" -> "b" [] c = "C" -> "c" [] c = "D" -> "d"
         [] c = "E" -> "e" [] c = "F" -> "f" [] c = "G" -> "g" [] c = "H" -> "h"
         [] c = "I" -> "i" [] c = "J" -> "j" [] c = "K" -> "k" [] c = "L" -> "l"
         [] c = "M" -> "m" [] c = "N" -> "n" [] c = "O" -> "o" [] c = "P" -> "p"
         [] c = "Q" -> "q" [] c = "R" -> "r" [] c = "S" -> "s" [] c = "T" -> "t"
         [] c = "U" -> "u" [] c = "V" -> "v" [] c = "W" -> "w" [] c = "X" -> "x"
         [] c = "Y" -> "y" [] c = "Z" -> "z"]

\* str.lower()
Lower(s) ==
    [i \in 1..Len(s) |-> IF s[i] \in DOMAIN LowerCase THEN LowerCase[s[i]] ELSE s[i]]

\* the positions at which sub occurs in s
Occurrences(sub, s) ==
    {i \in 1..(Len(s) - Len(sub) + 1) : SubSeq(s, i, i + Len(sub) - 1) = sub}

\* "sub in s"
Contains(sub, s) == Occurrences(sub, s) # {}

RECURSIVE Split(_, _)
\* s.split(sep)
Split(s, sep) ==
    IF ~Contains(sep, s) THEN <<s>>
    ELSE The({<<SubSeq(s, 1, i - 1)>> \o Split(SubSeq(s, i + Len(sep), Len(s)), sep) :
              i \in {CHOOSE j \in Occurrences(sep, s) :
                        \A k \in Occurrences(sep, s) : j <= k}})

\* s.strip(chars)
StripChars(s, chars) ==
    The({IF kept = {} THEN <<>>
         ELSE SubSeq(s, CHOOSE a \in kept : \A b \in kept : a <= b,
                        CHOOSE a \in kept : \A b \in kept : b <= a) :
         kept \in {{i \in 1..Len(s) : s[i] \notin chars}}})

\* s.strip()
Strip(s) == StripChars(s, {" "})

\* a str value of pattern_data
Str(s) == [t |-> "str", s |-> Chars(s)]

\* pattern_data.get(key, default)
GetOr(pattern_data, key, default) ==
    IF key \in DOMAIN pattern_data THEN pattern_data[key] ELSE default

\* pattern_data.get(field_name), field_name a str computed from the condition
GetField(pattern_data, field_name) ==
    IF \E key \in DOMAIN pattern_data : Chars(key) = field_name
    THEN pattern_data[CHOOSE key \in DOMAIN pattern_data : Chars(key) = field_name]
    ELSE None

\* pattern_data.get(key) == "LITERAL"
FieldIs(pattern_data, key, literal) == GetOr(pattern_data, key, None) = Str(literal)

\* pattern_data.get(key) is True
FieldIsTrue(pattern_data, key) == GetOr(pattern_data, key, None) = Bool(TRUE)

\* bool(pattern_data.get(key, False))
FieldHolds(pattern_data, key) == Truthy(GetOr(pattern_data, key, Bool(FALSE)))

RECURSIVE match_state(_, _)
RECURSIVE MatchLowered(_, _)
\* the body of _match_state for cond = condition.lower()
MatchLowered(pattern_data, cond) ==
    IF \/ Contains(Chars("hh + hl"), cond)
       \/ Contains(Chars("structure == 'hh_hl'"), cond)
       \/ Contains(Chars("higher highs"), cond)
    THEN \/ FieldIs(pattern_data, "structure", "UPTREND")
         \/ FieldIs(pattern_data, "structure", "HH_HL")
    ELSE IF \/ Contains(Chars("lh + ll"), cond)
            \/ Contains(Chars("structure == 'lh_ll'"), cond)
            \/ Contains(Chars("lower lows"), cond)
    THEN \/ FieldIs(pattern_data, "structure", "DOWNTREND")
         \/ FieldIs(pattern_data, "structure", "LH_LL")
    ELSE IF \/ Contains(Chars("close above well-defined resistance"), cond)
            \/ Contains(Chars("break above resistance"), cond)
    THEN /\ FieldIs(pattern_data, "breakout", "UP")
         /\ FieldHolds(pattern_data, "volume_confirmation")
    ELSE IF \/ Contains(Chars("close below well-defined support"), cond)
            \/ Contains(Chars("break below support"), cond)
    THEN /\ FieldIs(pattern_data, "breakout", "DOWN")
         /\ FieldHolds(pattern_data, "volume_confirmation")
    ELSE IF Contains(Chars("gap up"), cond) /\ Contains(Chars("follow through"), cond)
    THEN /\ FieldIs(pattern_data, "gap_direction", "UP")
         /\ FieldHolds(pattern_data, "gap_follow_through")
    ELSE IF \/ Contains(Chars("gap up then price falls back"), cond)
            \/ Contains(Chars("gap up filled"), cond)
    THEN /\ FieldIs(pattern_data, "gap_direction", "UP")
         /\ FieldIsTrue(pattern_data, "gap_filled")
         /\ FieldIsTrue(pattern_data, "rejected")
    ELSE IF Contains(Chars("gap down"), cond) /\ Contains(Chars("follow through"), cond)
    THEN /\ FieldIs(pattern_data, "gap_direction", "DOWN")
         /\ FieldHolds(pattern_data, "gap_follow_through")
    ELSE IF \/ Contains(Chars("gap down then reclaimed"), cond)
            \/ Contains(Chars("gap down filled and reclaimed"), cond)
    THEN /\ FieldIs(pattern_data, "gap_direction", "DOWN")
         /\ FieldIsTrue(pattern_data, "gap_filled")
         /\ FieldIsTrue(pattern_data, "reclaimed")
    ELSE IF \/ Contains(Chars("bullish engulfing"), cond)
            \/ Contains(Chars("candle_pattern == 'bullish_engulfing'"), cond)
    THEN \/ FieldIs(pattern_data, "candle_pattern", "BULL_ENG")
         \/ FieldIs(pattern_data, "candle_pattern", "BULLISH_ENGULFING")
    ELSE IF \/ Contains(Chars("bearish engulfing"), cond)
            \/ Contains(Chars("candle_pattern == 'bearish_engulfing'"), cond)
    THEN \/ FieldIs(pattern_data, "candle_pattern", "BEAR_ENG")
         \/ FieldIs(pattern_data, "candle_pattern", "BEARISH_ENGULFING")
    ELSE IF Contains(Chars("hammer"), cond)
    THEN FieldIs(pattern_data, "candle_pattern", "HAMMER")
    ELSE IF Contains(Chars("shooting star"), cond)
    THEN FieldIs(pattern_data, "candle_pattern", "SHOOTING_STAR")
    ELSE IF \/ Contains(Chars("failed breakout"), cond)
            \/ Contains(Chars("failed_breakout"), cond)
    THEN FieldHolds(pattern_data, "failed_breakout")
    ELSE IF \/ Contains(Chars("failed breakdown"), cond)
            \/ Contains(Chars("failed_breakdown"), cond)
    THEN FieldHolds(pattern_data, "failed_breakdown")
    ELSE IF /\ Contains(Chars(" == "), cond)
            /\ Len(Split(cond, Chars(" == "))) = 2
    THEN \E parts \in {Split(cond, Chars(" == "))} :
            GetField(pattern_data, Strip(parts[1])) =
               [t |-> "str", s |-> StripChars(Strip(parts[2]), {"'", "\""})]
    ELSE IF Contains(Chars(" and "), cond)
    THEN \E parts \in {Split(cond, Chars(" and "))} :
            \A i \in 1..Len(parts) : match_state(pattern_data, Strip(parts[i]))
    ELSE IF Contains(Chars(" or "), cond)
    THEN \E parts \in {Split(cond, Chars(" or "))} :
            \E i \in 1..Len(parts) : match_state(pattern_data, Strip(parts[i]))
    ELSE FALSE

\* PriceActionScoringEngine._match_state
match_state(pattern_data, condition) ==
    \E cond \in {Lower(condition)} : MatchLowered(pattern_data, cond)

\* a state of a pattern: its name, its condition and its score range
PatternState(name, condition, low, high) ==
    [name |-> name, condition |-> Chars(condition), score_range |-> <<low, high>>]

\* the patterns of the rule tables scored: the STRUCTURE, REVERSAL and
\* CANDLES states of PRICE_ACTION_RULEBOOK, and a pattern of impact 0
PatternDefs == <<
    [name |-> "STRUCTURE", base_impact |-> 7,
     timeframes |->
       [MINOR |-> <<PatternState("STRONG_UPTREND",
                       "structure == 'HH_HL' AND swings_count >= 3", 4, 6),
                    PatternState("WEAK_UPTREND",
                       "structure == 'HH_HL' AND swings_count == 2", 2, 4),
                    PatternState("STRONG_DOWNTREND",
                       "structure == 'LH_LL' AND swings_count >= 3", -6, -4)>>,
        MAJOR |-> <<PatternState("STRONG_UPTREND",
                       "daily_structure == 'HH_HL' AND swings_count >= 4", 4, 6)>>]],
    [name |-> "REVERSAL", base_impact |-> 9,
     timeframes |->
       [MINOR |-> <<PatternState("DOUBLE_TOP_FORMING",
                       "pattern == 'DOUBLE_TOP' AND neckline_broken == False", -4, -2)>>]],
    [name |-> "CANDLES", base_impact |-> 6,
     timeframes |->
       [MINOR |-> <<PatternState("HAMMER_AT_SUPPORT",
                       "candle_pattern == 'HAMMER' AND near_support == True AND after_downmove == True",
                       3, 5)>>,
        MAJOR |-> <<>>]],
    [name |-> "CUSTOM", base_impact |-> 0,
     timeframes |->
       [MINOR |-> <<PatternState("DOUBLE_TOP", "pattern == 'DOUBLE_TOP'", 2, 4)>>,
        MAJOR |-> <<PatternState("TOP_OR_HAMMER",
                       "pattern == 'DOUBLE_TOP' OR candle_pattern == 'HAMMER'", -2, 0)>>]]
>>

\* rulebook["patterns"] of the rule tables scored, by position in PatternDefs
PatternTables ==
    {SortedSeq(S) : S \in {T \in SUBSET (1..Len(PatternDefs)) : Cardinality(T) <= MaxPatterns}}

\* a dict without the keys that are missing
WithoutMissing(d) == [key \in {k \in DOMAIN d : d[k] # None} |-> d[key]]

\* the pattern_data the engine is called with
PatternData ==
    {WithoutMissing([swings_count |-> swings_count, structure |-> structure,
                     candle_pattern |-> candle_pattern, pattern |-> pattern]) :
       swings_count \in {Num(2, 1), Num(3, 1)},
       structure \in {None, Str("HH_HL"), Str("UPTREND"), Str("LH_LL")},
       candle_pattern \in {None, Str("HAMMER")},
       pattern \in {None, Str("DOUBLE_TOP"), Str("double_top")}}

\* the state of _score_timeframe's loops before any pattern
NoPatterns == [matched_states |-> <<>>, score_accumulator |-> <<>>, pattern_weights |-> <<>>]

RECURSIVE PatternStatesLoop(_, _, _, _, _)
\* "for state_name, state_rule in states_def.items()"
PatternStatesLoop(pattern_cfg, states_def, i, acc, pattern_data) ==
    IF i > Len(states_def) THEN acc
    ELSE PatternStatesLoop(pattern_cfg, states_def, i + 1,
            IF match_state(pattern_data, states_def[i].condition)
            THEN [matched_states |->
                     Append(acc.matched_states, <<pattern_cfg.name, states_def[i].name>>),
                  score_accumulator |->
                     Append(acc.score_accumulator,
                            RMul(Midpoint(states_def[i].score_range),
                                 [n |-> pattern_cfg.base_impact, d |-> 1])),
                  pattern_weights |->
                     Append(acc.pattern_weights, [n |-> pattern_cfg.base_impact, d |-> 1])]
            ELSE acc,
            pattern_data)

RECURSIVE PatternsLoop(_, _, _, _, _)
\* "for pattern_name, pattern_cfg in patterns.items()"
PatternsLoop(patterns, timeframe, i, acc, pattern_data) ==
    IF i > Len(patterns) THEN acc
    ELSE PatternsLoop(patterns, timeframe, i + 1,
            The({IF \/ timeframe \notin DOMAIN pattern_cfg.timeframes
                    \/ pattern_cfg.timeframes[timeframe] = <<>>
                 THEN acc
                 ELSE The({PatternStatesLoop(pattern_cfg, states, 1, acc, pattern_data) :
                           states \in {pattern_cfg.timeframes[timeframe]}}) :
                 pattern_cfg \in {PatternDefs[patterns[i]]}}),
            pattern_data)

\* the (score, matched_states) _score_timeframe returns after its loops
PatternTimeframeResult(acc) ==
    IF acc.score_accumulator = <<>> THEN [score |-> Zero, matched_states |-> <<>>]
    ELSE The({[score |-> IF RLt(Zero, total_weight)
                         THEN RDiv(Sum(acc.score_accumulator), total_weight)
                         ELSE RDiv(Sum(acc.score_accumulator),
                                   [n |-> Len(acc.score_accumulator), d |-> 1]),
               matched_states |-> acc.matched_states] :
              total_weight \in {Sum(acc.pattern_weights)}})

\* PriceActionScoringEngine._score_timeframe
PriceAction_score_timeframe(patterns, timeframe, pattern_data) ==
    IF patterns = <<>> THEN [score |-> Zero, matched_states |-> <<>>]
    ELSE The({PatternTimeframeResult(acc) :
              acc \in {PatternsLoop(patterns, timeframe, 1, NoPatterns, pattern_data)}})

\* self.weight of the price-action engine
PriceActionWeight == [n |-> 6, d |-> 5]

\* PriceActionScoringEngine.score; matched_states is the list of a set, here
\* the set
PriceAction_score(patterns, pattern_data) ==
    The({[minor_score |-> minor.score, major_score |-> major.score,
          final_price_action_score |->
             RMul(RDiv(RAdd(minor.score, major.score), [n |-> 2, d |-> 1]),
                  PriceActionWeight),
          matched_states |->
             {minor.matched_states[i] : i \in 1..Len(minor.matched_states)}
                \cup {major.matched_states[i] : i \in 1..Len(major.matched_states)}] :
         minor \in {PriceAction_score_timeframe(patterns, "MINOR", pattern_data)},
         major \in {PriceAction_score_timeframe(patterns, "MAJOR", pattern_data)}})

-----------------------------------------------------------------------------
(* rulebooks/scoring_system.py: NewsScoringComponent                       *)

\* what _score_single_news_item returns for an item: a score, or None
NewsItemScores == {NoScore, [n |-> 4, d |-> 1], [n |-> -12, d |-> 1], Zero}

\* universe_state.global_news and symbol_state.news_items, as the score of
\* each item
NewsLists == UNION {[1..k -> NewsItemScores] : k \in 0..MaxNews}

RECURSIVE NewsLoop(_, _, _)
\* "for item in ...: score = self._score_single_news_item(item, symbol_state)"
NewsLoop(items, i, acc) ==
    IF i > Len(items) THEN acc
    ELSE NewsLoop(items, i + 1,
            IF IsNoScore(items[i]) THEN acc
            ELSE [total_score |-> RAdd(acc.total_score, items[i]),
                  count |-> acc.count + 1,
                  contributions |-> Append(acc.contributions, items[i])])

\* the return of _compute_raw_score, were the case count == 0 left to the
\* division: the division by zero raises, here the score None
NewsResult_Unguarded(acc) ==
    The({[raw |-> avg_score,
          details |-> [avg_news_score |-> avg_score,
                       items_contributed |-> acc.contributions]] :
         avg_score \in {IF acc.count = 0 THEN NoScore
                        ELSE Clamp(RDiv(acc.total_score, [n |-> acc.count, d |-> 1]))}})

\* the return of _compute_raw_score after its loops: the raw score and the
\* details, a dict with the keys avg_news_score and items_contributed
NewsResult(acc) ==
    The({[raw |-> avg_score,
          details |-> [avg_news_score |-> avg_score,
                       items_contributed |-> acc.contributions]] :
         avg_score \in {Clamp(IF acc.count = 0 THEN Zero
                              ELSE RDiv(acc.total_score, [n |-> acc.count, d |-> 1]))}})

\* NewsScoringComponent._compute_raw_score
News_compute_raw_score(global_news, news_items) ==
    The({NewsResult(acc) :
         acc \in {NewsLoop(news_items, 1,
                     NewsLoop(global_news, 1,
                        [total_score |-> Zero, count |-> 0, contributions |-> <<>>]))}})

-----------------------------------------------------------------------------
(* The state machine: one scoring call per step on the entity's snapshot   *)

NoArg == [cond |-> 0]
NoOut == [r |-> Bool(FALSE)]

\* no earlier call is kept for comparison
NoCall == [op |-> "idle"]

\* every call starts from the idle engine and its result is handed back whole
Init ==
    /\ snapshot \in Snapshots
    /\ op = "idle"
    /\ arg = NoArg
    /\ out = NoOut
    /\ earlier = NoCall

\* safe_eval(expr, variables) called on the snapshot's mapping
SafeEval(c) ==
    /\ op = "idle"
    /\ op' = "safe_eval"
    /\ arg' = [cond |-> c]
    /\ out' = [r |-> safe_eval(Conditions[c], BindNames(snapshot))]
    /\ UNCHANGED <<snapshot, earlier>>

\* one state's condition put to an engine's matcher
MatchState(engine, c) ==
    /\ op = "idle"
    /\ op' = "match"
    /\ arg' = [cond |-> c, engine |-> engine]
    /\ out' = [matched |-> Match(engine, Conditions[c], snapshot),
               eval |-> Evaluate(engine, Conditions[c], snapshot)]
    /\ UNCHANGED <<snapshot, earlier>>

\* the states of one metric (of one timeframe, for sentiment) scored
ScoreMetricStates(engine, states_def) ==
    /\ op = "idle"
    /\ op' = "score_metric_states"
    /\ arg' = [engine |-> engine, states_def |-> states_def]
    /\ out' = score_metric_states(engine, states_def, snapshot)
    /\ UNCHANGED <<snapshot, earlier>>

\* one timeframe of a rule table scored
ScoreTimeframe(engine, metrics_def, timeframe) ==
    /\ op = "idle"
    /\ op' = "score_timeframe"
    /\ arg' = [engine |-> engine, metrics_def |-> metrics_def, timeframe |-> timeframe]
    /\ out' = score_timeframe(engine, metrics_def, timeframe, snapshot)
    /\ UNCHANGED <<snapshot, earlier>>

\* TechnicalIndicatorsComponent.score_symbol on a symbol whose MINOR and
\* MAJOR indicator snapshots, when it has them, carry the snapshot's values
TechnicalScoreSymbol(indicator_defs, has_minor, has_major, weight) ==
    /\ op = "idle"
    /\ op' = "technical_score_symbol"
    /\ arg' = [indicator_defs |-> indicator_defs, has_minor |-> has_minor,
               has_major |-> has_major, weight |-> weight]
    /\ \E computed \in {Technical_compute_raw_score(indicator_defs,
                              IF has_minor THEN Indicators(snapshot) ELSE NoIndicators,
                              IF has_major THEN Indicators(snapshot) ELSE NoIndicators)} :
          \E raw_score \in {computed.raw} :
             out' = [computed |-> raw_score, reason |-> computed.reason,
                     score |-> score_symbol(raw_score, weight)]
    /\ UNCHANGED <<snapshot, earlier>>

\* score_symbol of any component, for a value its _compute_raw_score returns
ScoreSymbol(raw_score, weight) ==
    /\ op = "idle"
    /\ op' = "score_symbol"
    /\ arg' = [raw_score |-> raw_score, weight |-> weight]
    /\ out' = [computed |-> raw_score, score |-> score_symbol(raw_score, weight)]
    /\ UNCHANGED <<snapshot, earlier>>

\* OptionsFlowScoringEngine.score on the snapshot, for a table of MINOR states
OptionsFlowScore(states_def, weight) ==
    /\ op = "idle"
    /\ op' = "options_flow_score"
    /\ arg' = [states_def |-> states_def, weight |-> weight]
    /\ out' = OptionsFlow_score(states_def, snapshot, weight)
    /\ UNCHANGED <<snapshot, earlier>>

\* one scoring cycle of rulebooks/scoring_system.py: score_universe on the
\* universe as it is in the cycle; the triggers of the cycle are no argument
\* of it.  A cycle follows the previous one of the same engine on the same
\* symbols, or starts from the idle engine.
ScoreUniverse(extra_components, universe, triggered) ==
    /\ \/ op = "idle"
       \/ /\ op = "score_universe"
          /\ arg.extra_components = extra_components
          /\ Len(arg.universe) = Len(universe)
    /\ op' = "score_universe"
    /\ arg' = [extra_components |-> extra_components, universe |-> universe,
               triggered |-> triggered]
    /\ out' = [results |-> score_universe(extra_components, universe)]
    /\ UNCHANGED <<snapshot, earlier>>

\* engine.score_symbol(symbol, module_results) of scoring/master_scoring.py
MasterScoreSymbol(config, module_results) ==
    /\ op = "idle"
    /\ op' = "master_score_symbol"
    /\ arg' = [config |-> config, module_results |-> module_results]
    /\ out' = Master_score_symbol(1, config, module_results)
    /\ UNCHANGED <<snapshot, earlier>>

\* engine.rank_symbols(symbol_results, min_abs_score)
RankSymbols(symbol_results, min_abs_score) ==
    /\ op = "idle"
    /\ op' = "rank_symbols"
    /\ arg' = [symbol_results |-> symbol_results, min_abs_score |-> min_abs_score]
    /\ out' = [ranked |-> rank_symbols(symbol_results, min_abs_score)]
    /\ UNCHANGED <<snapshot, earlier>>

\* engine._combine_minor_major(minor, major)
CombineMinorMajor(engine, minor, major) ==
    /\ op = "idle"
    /\ op' = "combine_minor_major"
    /\ arg' = [engine |-> engine, minor |-> minor, major |-> major]
    /\ out' = [combined |-> combine_minor_major(engine, minor, major)]
    /\ UNCHANGED <<snapshot, earlier>>

\* PriceActionScoringEngine(rulebook).score(pattern_data)
PriceActionScore(patterns, pattern_data) ==
    /\ op = "idle"
    /\ op' = "price_action_score"
    /\ arg' = [patterns |-> patterns, pattern_data |-> pattern_data]
    /\ out' = PriceAction_score(patterns, pattern_data)
    /\ UNCHANGED <<snapshot, earlier>>

\* PositionRiskScoringEngine.score(account_state, position_state), the
\* snapshot being the account_state of the caller
PositionRiskScore(metrics_def, position_state) ==
    /\ op = "idle"
    /\ op' = "position_risk_score"
    /\ arg' = [metrics_def |-> metrics_def, position_state |-> position_state]
    /\ \E r \in {PositionRisk_score(metrics_def, snapshot, position_state)} :
          /\ out' = r.result
          /\ snapshot' = r.account_state
    /\ UNCHANGED earlier

\* NewsScoringComponent._compute_raw_score on the news of a symbol
NewsComputeRawScore(global_news, news_items) ==
    /\ op = "idle"
    /\ op' = "news_compute_raw_score"
    /\ arg' = [global_news |-> global_news, news_items |-> news_items]
    /\ out' = News_compute_raw_score(global_news, news_items)
    /\ UNCHANGED <<snapshot, earlier>>

\* the keys of an engine's result dict that hold a score
ScoreKeys ==
    {"minor_score", "major_score", "final_options_flow_score",
     "final_price_action_score", "final_position_risk_score"}

\* the result dict of an engine as the entry of its module in module_results
AsEntry(result) ==
    ResultDict([key \in DOMAIN result |->
                   IF key \in ScoreKeys THEN result[key] ELSE NoScore])

\* what the engines of scoring/ return for the departments the master
\* names options, pattern and position_risk, scored on the snapshot snap
EngineOutputs(snap) ==
    {[module_name |-> "options", result |-> OptionsFlow_score(states_def, snap, weight)] :
        states_def \in StateTables, weight \in {[n |-> 21, d |-> 20]}}
    \cup {[module_name |-> "pattern", result |-> PriceAction_score(patterns, pattern_data)] :
             patterns \in PatternTables, pattern_data \in PatternData}
    \cup {[module_name |-> "position_risk",
           result |-> PositionRisk_score(metrics_def, snap, position_state).result] :
             metrics_def \in MetricTables, position_state \in PositionStates}

\* the engine of a department scores, and its result dict goes unchanged
\* into the module_results of MasterScoringEngine().score_symbol
MasterScoreEngineOutput ==
    /\ op = "idle"
    /\ op' = "master_score_engine_output"
    /\ \E e \in EngineOutputs(snapshot) :
          /\ arg' = [module_name |-> e.module_name]
          /\ \E module_results \in
                   {[m \in DOMAIN module_score_keys |->
                        IF m = e.module_name THEN AsEntry(e.result) ELSE NoEntry]} :
                out' = [engine_result |-> e.result,
                        master |-> Master_score_symbol(1, DEFAULT_CONFIG, module_results)]
    /\ UNCHANGED <<snapshot, earlier>>

\* the caller takes the result; the engine keeps nothing of the call
Return ==
    /\ op # "idle"
    /\ op' = "idle"
    /\ arg' = NoArg
    /\ out' = NoOut
    /\ UNCHANGED <<snapshot, earlier>>

Next ==
    \/ \E c \in CondIds : SafeEval(c)
    \/ \E engine \in Engines, c \in CondIds : MatchState(engine, c)
    \/ \E engine \in {"fundamentals", "position_risk", "sentiment"},
          states_def \in StateTables : ScoreMetricStates(engine, states_def)
    \/ \E engine \in {"fundamentals", "position_risk"}, metrics_def \in MetricTables,
          timeframe \in Timeframes : ScoreTimeframe(engine, metrics_def, timeframe)
    \/ \E indicator_defs \in IndicatorTables, has_minor \in BOOLEAN, has_major \in BOOLEAN :
          TechnicalScoreSymbol(indicator_defs, has_minor, has_major, [n |-> 13, d |-> 50])
    \/ \E raw_score \in RawScores, weight \in Weights : ScoreSymbol(raw_score, weight)
    \/ \E states_def \in StateTables : OptionsFlowScore(states_def, [n |-> 21, d |-> 20])
    \/ \E metrics_def \in MetricTables, position_state \in PositionStates :
          PositionRiskScore(metrics_def, position_state)
    \/ Return

Spec == Init /\ [][Next]_vars

\* the engines together on one entity: the master engines, the price-action
\* engine, the news component and the combination of the timeframe scores
\* read no snapshot, and the others score the one snapshot
MasterInit ==
    /\ Init
    /\ snapshot = [var \in SnapshotVars |-> CHOOSE v \in Domain(var) : v.t = "num"]

MasterNext ==
    \/ \E extra_components \in ExtraComponents, universe \in Universes,
          triggered \in TriggerSets : ScoreUniverse(extra_components, universe, triggered)
    \/ \E config \in Configs, module_results \in ModuleResults :
          MasterScoreSymbol(config, module_results)
    \/ \E symbol_results \in SymbolResults, min_abs_score \in MinAbsScores :
          RankSymbols(symbol_results, min_abs_score)
    \/ \E engine \in {"fundamentals", "position_risk", "sentiment"},
          minor \in TimeframeScores, major \in TimeframeScores :
          CombineMinorMajor(engine, minor, major)
    \/ \E patterns \in PatternTables, pattern_data \in PatternData :
          PriceActionScore(patterns, pattern_data)
    \/ \E indicator_defs \in IndicatorTables, has_minor \in BOOLEAN, has_major \in BOOLEAN :
          TechnicalScoreSymbol(indicator_defs, has_minor, has_major, [n |-> 13, d |-> 50])
    \/ \E global_news \in NewsLists, news_items \in NewsLists :
          NewsComputeRawScore(global_news, news_items)
    \/ \E engine \in {"fundamentals", "position_risk", "sentiment"},
          states_def \in StateTables : ScoreMetricStates(engine, states_def)
    \/ \E engine \in {"fundamentals", "position_risk"}, metrics_def \in MetricTables,
          timeframe \in Timeframes : ScoreTimeframe(engine, metrics_def, timeframe)
    \/ \E metrics_def \in MetricTables, position_state \in PositionStates :
          PositionRiskScore(metrics_def, position_state)
    \/ MasterScoreEngineOutput
    \/ Return

MasterSpec == MasterInit /\ [][MasterNext]_vars

\* the entities whose snapshots one engine scores in turn
RepeatSnapshots ==
    {[pe_ratio |-> pe_ratio, pb_ratio |-> Num(18, 10), rsi |-> Num(85, 1),
      gamma_exposure |-> Num(-5, 1), gamma_critical_threshold |-> Num(3, 1)] :
       pe_ratio \in {v \in Domain("pe_ratio") : v.t = "num"}}

\* the caller turns to the snapshot of another entity
NextEntity ==
    /\ op = "idle"
    /\ snapshot' \in RepeatSnapshots \ {snapshot}
    /\ UNCHANGED <<op, arg, out, earlier>>

\* the caller takes the result and keeps the call, its snapshot and its
\* result, to compare a later call with
ReturnKeeping ==
    /\ op # "idle"
    /\ earlier = NoCall
    /\ earlier' = [op |-> op, arg |-> arg, snapshot |-> snapshot, out |-> out]
    /\ op' = "idle"
    /\ arg' = NoArg
    /\ out' = NoOut
    /\ UNCHANGED snapshot

\* one instance of each engine scoring entity after entity, in any order
RepeatInit ==
    /\ Init
    /\ snapshot \in RepeatSnapshots

\* the rule tables and arguments of the calls that are repeated
RepeatStateTables == {t \in StateTables : Len(t) = 1 /\ t[1] \in {2, 3, 4, 8}}
RepeatMetricTables == {t \in MetricTables : Len(t) = 1 /\ t[1] \in {1, 2, 6}}
RepeatPatternData ==
    {d \in PatternData : /\ DOMAIN d = {"swings_count", "structure"}
                         /\ d.structure \in {Str("HH_HL"), Str("LH_LL")}}

RepeatNext ==
    \/ \E states_def \in RepeatStateTables :
          OptionsFlowScore(states_def, [n |-> 21, d |-> 20])
    \/ \E states_def \in RepeatStateTables : ScoreMetricStates("sentiment", states_def)
    \/ \E metrics_def \in RepeatMetricTables, timeframe \in Timeframes :
          ScoreTimeframe("fundamentals", metrics_def, timeframe)
    \/ \E metrics_def \in RepeatMetricTables, position_state \in PositionStates :
          PositionRiskScore(metrics_def, position_state)
    \/ \E pattern_data \in RepeatPatternData : PriceActionScore(<<1>>, pattern_data)
    \/ \E module_results \in {OnlyMacro(n) : n \in {-12, 0, 6}} :
          MasterScoreSymbol(DEFAULT_CONFIG, module_results)
    \/ NextEntity
    \/ ReturnKeeping
    \/ Return

RepeatSpec == RepeatInit /\ [][RepeatNext]_vars

-----------------------------------------------------------------------------
(* Properties of condition evaluation                                      *)

SafeEvalEngines == {"options_flow", "sentiment", "position_risk"}
NativeEvalEngines == {"fundamentals", "technical"}

RECURSIVE OutsideGrammar(_, _)
\* the tree holds a node outside the admitted grammar: constants, names,
\* + - * / %, and/or, the eight comparisons, a call of abs (and, when
\* admitUnary, a unary minus or not)
OutsideGrammar(node, admitUnary) ==
    CASE node.kind \in {"Constant", "Name"} -> FALSE
      [] node.kind = "BinOp" ->
           \/ node.op \notin ArithOps
           \/ OutsideGrammar(node.left, admitUnary)
           \/ OutsideGrammar(node.right, admitUnary)
      [] node.kind = "BoolOp" ->
           \/ node.op \notin BoolOps
           \/ \E i \in 1..Len(node.values) : OutsideGrammar(node.values[i], admitUnary)
      [] node.kind = "Compare" ->
           \/ \E i \in 1..Len(node.ops) : node.ops[i] \notin CompareOps
           \/ OutsideGrammar(node.left, admitUnary)
           \/ \E i \in 1..Len(node.comparators) :
                 OutsideGrammar(node.comparators[i], admitUnary)
      [] node.kind = "Call" ->
           \/ node.func # Name("abs")
           \/ \E i \in 1..Len(node.args) : OutsideGrammar(node.args[i], admitUnary)
      [] node.kind = "UnaryOp" ->
           ~admitUnary \/ OutsideGrammar(node.operand, admitUnary)
      [] node.kind = "SyntaxError" -> FALSE
      [] OTHER -> TRUE

\* the snapshot's number for a variable, as a rational
Val(var) == [n |-> snapshot[var].n, d |-> snapshot[var].d]

IsNum(var) == snapshot[var].t = "num"

\* C1: in the options-flow, sentiment and position-risk engines, a condition
\* whose syntax tree holds a node outside the admitted set makes safe_eval
\* raise ValueError, so that the state is taken as not matched.
C1_DisallowedSyntaxNeverMatches ==
    (op = "match" /\ arg.engine \in SafeEvalEngines
        /\ OutsideGrammar(Conditions[arg.cond].tree, FALSE))
    => ~out.matched

\* C3: in the fundamentals engine and the technical component, a condition
\* that holds attribute access, a call other than abs, indexing or a
\* comprehension never matches, whatever the snapshot.
C3_NativeEvalFailsClosed ==
    (op = "match" /\ arg.engine \in NativeEvalEngines
        /\ OutsideGrammar(Conditions[arg.cond].tree, TRUE))
    => ~out.matched

\* C4: with abs bound in the variable mapping, the options-flow and sentiment
\* engines match "gamma_exposure < 0 and abs(gamma_exposure) >=
\* gamma_critical_threshold" exactly when the numeric comparison holds.
C4_AbsCallAdmitted ==
    (op = "match" /\ arg.engine \in {"options_flow", "sentiment"}
        /\ arg.cond = CondOf("gamma_exposure < 0 and abs(gamma_exposure) >= gamma_critical_threshold"))
    => (out.matched <=>
          /\ IsNum("gamma_exposure") /\ IsNum("gamma_critical_threshold")
          /\ Val("gamma_exposure").n < 0
          /\ RLe(Val("gamma_critical_threshold"), RAbs(Val("gamma_exposure"))))

\* the first operand of a two-operand and/or, evaluated on its own
FirstOperand(c) == SafeEvalNode(Conditions[c].tree.values[1], BindNames(snapshot))

\* C5: safe_eval's "a or b" is true whenever a is true and its "a and b" is
\* false whenever a is false, even when evaluating b would fail.
C5_ShortCircuit ==
    (op = "safe_eval" /\ Conditions[arg.cond].tree.kind = "BoolOp"
        /\ ~IsRaise(FirstOperand(arg.cond)))
    => /\ (Conditions[arg.cond].tree.op = "Or" /\ Truthy(FirstOperand(arg.cond)))
            => out.r = Bool(TRUE)
       /\ (Conditions[arg.cond].tree.op = "And" /\ ~Truthy(FirstOperand(arg.cond)))
            => out.r = Bool(FALSE)

\* operand i (0 = the left-most) of a comparison chain, evaluated on its own
Operand(tree, i) ==
    SafeEvalNode(IF i = 0 THEN tree.left ELSE tree.comparators[i], BindNames(snapshot))

\* pair i of a chain: operand i-1 compared with operand i
Pair(tree, i) == Comparison(tree.ops[i], Operand(tree, i - 1), Operand(tree, i))

\* pair i is reached and is the place where the chain stops
StopsAt(tree, i) ==
    /\ ~IsRaise(Operand(tree, 0))
    /\ \A j \in 1..(i - 1) : ~IsRaise(Operand(tree, j)) /\ Pair(tree, j) = Bool(TRUE)
    /\ IsRaise(Operand(tree, i)) \/ Pair(tree, i) # Bool(TRUE)

\* what the conjunction of the pairs of a chain comes to
Chain(tree) ==
    IF IsRaise(Operand(tree, 0)) THEN Raise("ValueError")
    ELSE IF \A i \in 1..Len(tree.ops) : ~StopsAt(tree, i) THEN Bool(TRUE)
    ELSE LET i == CHOOSE k \in 1..Len(tree.ops) : StopsAt(tree, k)
         IN  IF ~IsRaise(Operand(tree, i)) /\ Pair(tree, i) = Bool(FALSE)
             THEN Bool(FALSE) ELSE Raise("ValueError")

\* C6: safe_eval gives a chained comparison the conjunction of its pairs,
\* each middle operand serving as the right side of one pair and the left
\* side of the next, stopping at the first false pair; "12 <= pe_ratio <= 18
\* and pb_ratio < 2.0" is true with pe_ratio 15, pb_ratio 1.8 and false with
\* pe_ratio 11 or 19.
C6_ChainedComparison ==
    op = "safe_eval" =>
      /\ Conditions[arg.cond].tree.kind = "Compare"
            => out.r = Chain(Conditions[arg.cond].tree)
      /\ (arg.cond = CondOf("12 <= pe_ratio <= 18 and pb_ratio < 2.0") /\ IsNum("pe_ratio"))
            => (out.r = Bool(/\ RLe([n |-> 12, d |-> 1], Val("pe_ratio"))
                             /\ RLe(Val("pe_ratio"), [n |-> 18, d |-> 1])
                             /\ RLt(Val("pb_ratio"), [n |-> 2, d |-> 1])))

C6_Witness ==
    /\ op = "safe_eval"
    /\ arg.cond = CondOf("0 < pb_ratio < pe_ratio < 18")
    /\ snapshot["pe_ratio"] = Num(19, 1)
    /\ out.r = Bool(FALSE)

\* an engine's evaluation of a state's condition failed at run time
Failed(engine, state) ==
    /\ ~Conditions[StateDefs[state].condition].empty
    /\ IsRaise(Evaluate(engine, Conditions[StateDefs[state].condition], snapshot))

\* an engine's evaluation of a state's condition came out true
HoldsIn(engine, state) ==
    LET condition == Conditions[StateDefs[state].condition]
        r == Evaluate(engine, condition, snapshot)
    IN  ~condition.blank /\ ~IsRaise(r) /\ Truthy(r)

Range(seq) == {seq[i] : i \in 1..Len(seq)}

\* C2: when evaluating a state's condition fails at run time (unknown
\* variable, None operand, division by zero) the state is not matched, the
\* call returns, and the other states match exactly as their own conditions
\* say.
C2_FailedEvaluationIsNoMatch ==
    /\ (op = "match" /\ IsRaise(out.eval)) => out.matched = FALSE
    /\ op = "score_metric_states" =>
          /\ \A i \in 1..Len(arg.states_def) :
                Failed(arg.engine, arg.states_def[i])
                    => arg.states_def[i] \notin Range(out.matched_states)
          /\ Range(out.matched_states)
                = {st \in Range(arg.states_def) : HoldsIn(arg.engine, st)}

C2_Witness ==
    /\ op = "score_metric_states"
    /\ arg.engine = "position_risk"
    /\ arg.states_def = <<1, 4, 6>>
    /\ snapshot["rsi"] = None
    /\ snapshot["gamma_exposure"] = Num(0, 1)
    /\ Failed("position_risk", 4) /\ Failed("position_risk", 6)
    /\ out.matched_states = <<1>>

-----------------------------------------------------------------------------
(* Properties of the state matcher and the aggregator                      *)

\* the states of a table that an engine's matcher takes as matched
Matching(engine, states_def) ==
    {st \in Range(states_def) :
        /\ ~Conditions[StateDefs[st].condition].empty
        /\ Match(engine, Conditions[StateDefs[st].condition], snapshot)}

RECURSIVE SumOfBounds(_)
\* the sum of low + high over a set of states
SumOfBounds(S) ==
    IF S = {} THEN 0
    ELSE LET st == CHOOSE x \in S : TRUE
         IN  StateDefs[st].score_range[1] + StateDefs[st].score_range[2]
               + SumOfBounds(S \ {st})

\* C7: the score of a metric in a timeframe is the arithmetic mean of the
\* midpoints (low + high) / 2 of all its matched states; states whose
\* condition is false or empty contribute nothing, and with no matched state
\* there is no score (0 in the sentiment engine).
C7_MeanOfMatchedMidpoints ==
    op = "score_metric_states" =>
      LET M == Matching(arg.engine, arg.states_def)
      IN  /\ M # {} => /\ ~IsNoScore(out.score)
                       /\ out.score.n * 2 * Cardinality(M) = SumOfBounds(M) * out.score.d
          /\ M = {} => out.score = IF arg.engine = "sentiment" THEN Zero ELSE NoScore
          /\ Range(out.matched_states) = M

C7_Witness ==
    /\ op = "score_metric_states"
    /\ arg.states_def = <<2, 3, 4>>
    /\ out.matched_states = <<2, 3>>
    /\ Midpoint(StateDefs[2].score_range) = [n |-> 4, d |-> 1]
    /\ Midpoint(StateDefs[3].score_range) = [n |-> 6, d |-> 1]
    /\ out.score = [n |-> 5, d |-> 1]

\* the metrics of a table with at least one matching state in the timeframe
Contributing(engine, metrics_def, timeframe) ==
    {m \in Range(metrics_def) :
        /\ timeframe \in MetricDefs[m].timeframes
        /\ Matching(engine, MetricDefs[m].states[timeframe]) # {}}

\* metric_weight * group_base_weight
W(m) == RMul(MetricDefs[m].weight, GroupBaseWeight(MetricDefs[m].group))

RECURSIVE WeightedSum(_, _, _)
\* sum(metric_score * metric_weight * group_base_weight) over a set of metrics
WeightedSum(engine, S, timeframe) ==
    IF S = {} THEN Zero
    ELSE LET m == CHOOSE x \in S : TRUE
             ms == score_metric_states(engine, MetricDefs[m].states[timeframe], snapshot).score
         IN  RAdd(RMul(ms, W(m)), WeightedSum(engine, S \ {m}, timeframe))

RECURSIVE TotalWeight(_)
\* sum(metric_weight * group_base_weight) over a set of metrics
TotalWeight(S) ==
    IF S = {} THEN Zero
    ELSE LET m == CHOOSE x \in S : TRUE IN RAdd(W(m), TotalWeight(S \ {m}))

\* C8: the timeframe score of the fundamentals and position-risk engines is
\* sum(metric_score * metric_weight * group_base_weight) / sum(metric_weight *
\* group_base_weight) over exactly the metrics with a matching state; a metric
\* without one adds to neither sum, so removing it from the rule table, or
\* adding one, leaves the score unchanged.
C8_WeightedMeanOverContributing ==
    op = "score_timeframe" =>
      LET C == Contributing(arg.engine, arg.metrics_def, arg.timeframe)
          num == WeightedSum(arg.engine, C, arg.timeframe)
          den == TotalWeight(C)
      IN  /\ REq(RMul(out.score, den), num)
          /\ den.n # 0 => out.score = RDiv(num, den)
          /\ {ms[1] : ms \in Range(out.metric_scores)} = C
          /\ \A m \in Range(arg.metrics_def) \ C :
                score_timeframe(arg.engine, SortedSeq(Range(arg.metrics_def) \ {m}),
                                arg.timeframe, snapshot).score = out.score
          /\ \A m \in MetricIds \ Range(arg.metrics_def) :
                Contributing(arg.engine, <<m>>, arg.timeframe) = {}
                    => score_timeframe(arg.engine, SortedSeq(Range(arg.metrics_def) \cup {m}),
                                       arg.timeframe, snapshot).score = out.score

C8_Witness ==
    /\ op = "score_timeframe"
    /\ arg.metrics_def = <<1, 2, 5>>
    /\ arg.timeframe = "MINOR"
    /\ Contributing(arg.engine, arg.metrics_def, arg.timeframe) = {1, 2}
    /\ out.metric_scores = <<<<1, [n |-> 4, d |-> 1]>>, <<2, [n |-> 6, d |-> 1]>>>>
    /\ out.score = [n |-> 92, d |-> 19]

\* no state of an indicator matches in either timeframe the symbol has data for
NonMatching(indicator, has_minor, has_major) ==
    LET cfg == IndicatorDefs[indicator]
        none(tf) == \A st \in Range(cfg.states[tf]) :
                       ~Technical_evaluate_condition(Conditions[StateDefs[st].condition], snapshot)
    IN  /\ (has_minor /\ "MINOR" \in cfg.timeframes) => none("MINOR")
        /\ (has_major /\ "MAJOR" \in cfg.timeframes) => none("MAJOR")

\* C9: an indicator of the technical rule table for which no state matches is
\* left out of the weighted aggregation: removing it from the rule table does
\* not change the component's raw score.
C9_NonMatchingIndicatorExcluded ==
    op = "technical_score_symbol" =>
      \A i \in Range(arg.indicator_defs) :
         NonMatching(i, arg.has_minor, arg.has_major) =>
            Technical_compute_raw_score(
                SortedSeq(Range(arg.indicator_defs) \ {i}),
                IF arg.has_minor THEN Indicators(snapshot) ELSE NoIndicators,
                IF arg.has_major THEN Indicators(snapshot) ELSE NoIndicators).raw
              = out.computed

\* C10: score_symbol returns raw_score = the computed raw score clamped to
\* [-10, 10] and weighted_score = that clamped score times the component
\* weight, so |weighted_score| <= 10 * |weight|.
C10_ClampBeforeWeight ==
    op \in {"score_symbol", "technical_score_symbol"} =>
      LET clamped == IF RLt(out.computed, MinusTen) THEN MinusTen
                     ELSE IF RLt(Ten, out.computed) THEN Ten
                     ELSE out.computed
      IN  /\ out.score.raw_score = clamped
          /\ out.score.weight = arg.weight
          /\ out.score.weighted_score = RMul(clamped, arg.weight)
          /\ RLe(RAbs(out.score.weighted_score), RMul(Ten, RAbs(arg.weight)))

C10_Witness ==
    /\ op = "score_symbol"
    /\ arg.raw_score = [n |-> 30, d |-> 1]
    /\ arg.weight = [n |-> 13, d |-> 50]
    /\ out.score.raw_score = Ten
    /\ out.score.weighted_score = [n |-> 13, d |-> 5]

-----------------------------------------------------------------------------
(* Properties of the department scores and the master engines              *)

\* C11: when every score range of the options rule table lies within the
\* declared scale [-10, 10], the raw department score minor_score that
\* OptionsFlowScoringEngine.score computes before the module weight lies
\* within [-10, 10], however many states match at once.
C11_OptionsMinorScoreWithinScale ==
    (/\ op = "options_flow_score"
     /\ \A st \in Range(arg.states_def) :
           /\ -10 <= StateDefs[st].score_range[1] /\ StateDefs[st].score_range[1] <= 10
           /\ -10 <= StateDefs[st].score_range[2] /\ StateDefs[st].score_range[2] <= 10)
    => /\ RLe(MinusTen, out.minor_score)
       /\ RLe(out.minor_score, Ten)

\* the result score_universe returned for a symbol
ResultOf(results, symbol) == CHOOSE r \in Range(results) : r.symbol = symbol

\* C12: score_universe sets each symbol's total_score to the plain sum of
\* the weighted_score of every component, the six departments and the extra
\* ones, and never clamps it: a total beyond 10 in magnitude is returned as
\* it is.
C12_TotalIsUnclampedSum ==
    op = "score_universe" =>
      \A r \in Range(out.results) :
         /\ Len(r.components) = 6 + Len(arg.extra_components)
         /\ \A i \in 1..Len(r.components) :
               LET c == (DefaultComponents \o arg.extra_components)[i]
                   raw == arg.universe[r.symbol][c.name]
               IN  /\ r.components[i].component_name = c.name
                   /\ r.components[i].weighted_score =
                        RMul(RMax(MinusTen, RMin(Ten, raw)), c.weight)
         /\ r.total_score = SumWeighted(r.components)

C12_Witness ==
    /\ op = "score_universe"
    /\ Len(arg.extra_components) = 1
    /\ \E r \in Range(out.results) : r.total_score = [n |-> -25, d |-> 1]

\* the departments score_symbol takes into the master score: enabled, with
\* a result that holds a score
Present(config, module_results) ==
    {module_name \in DOMAIN module_results :
       /\ is_module_enabled(config, module_name)
       /\ ~module_results[module_name].absent
       /\ module_score_keys[module_name] \in DOMAIN module_results[module_name].dict
       /\ ~IsNoScore(module_results[module_name].dict[module_score_keys[module_name]])}

\* the score a department hands to the master engine
ScoreOf(module_results, module_name) ==
    module_results[module_name].dict[module_score_keys[module_name]]

RECURSIVE SumOver(_, _)
\* the sum of the scores of a set of departments
SumOver(module_results, modules) ==
    IF modules = {} THEN Zero
    ELSE LET module_name == CHOOSE x \in modules : TRUE
         IN  RAdd(ScoreOf(module_results, module_name),
                  SumOver(module_results, modules \ {module_name}))

\* C13: score_symbol of scoring/master_scoring.py returns as
\* final_master_score the plain sum of the scores of the departments that
\* are enabled and present in module_results, and does not clamp that sum.
C13_MasterScoreIsUnclampedSum ==
    op = "master_score_symbol" =>
      out.final_master_score =
        SumOver(arg.module_results, Present(arg.config, arg.module_results))

\* C14: with direction_threshold t > 0 and final master score s, score_symbol
\* of scoring/master_scoring.py labels the symbol LONG iff s >= t, SHORT iff
\* s <= -t and NEUTRAL iff -t < s < t; s = t is LONG and s = -t is SHORT.
C14_DirectionBoundariesInclusive ==
    op = "master_score_symbol" =>
      LET s == out.final_master_score
          t == arg.config.direction_threshold
          minus_t == [n |-> -t.n, d |-> t.d]
      IN  /\ RLt(Zero, t)
          /\ out.direction \in {"LONG", "SHORT", "NEUTRAL"}
          /\ out.direction = "LONG" <=> RLe(t, s)
          /\ out.direction = "SHORT" <=> RLe(s, minus_t)
          /\ out.direction = "NEUTRAL" <=> (RLt(minus_t, s) /\ RLt(s, t))

C14_Witness ==
    /\ op = "master_score_symbol"
    /\ arg.config.direction_threshold = [n |-> 4, d |-> 1]
    /\ out.final_master_score = [n |-> -4, d |-> 1]
    /\ out.direction = "SHORT"

\* C15: score_universe labels a symbol whose total is at least +0.5 LONG and
\* one whose total is at most -0.5 SHORT; only a total strictly between
\* -0.5 and +0.5 is NEUTRAL.
C15_UniverseBoundariesInclusive ==
    op = "score_universe" =>
      \A r \in Range(out.results) :
         /\ r.direction = "LONG" <=> RLe([n |-> 1, d |-> 2], r.total_score)
         /\ r.direction = "SHORT" <=> RLe(r.total_score, [n |-> -1, d |-> 2])
         /\ r.direction = "NEUTRAL" <=>
               /\ RLt([n |-> -1, d |-> 2], r.total_score)
               /\ RLt(r.total_score, [n |-> 1, d |-> 2])

\* C16: rank_symbols returns exactly the entries whose abs_strength is at
\* least min_abs_score, each once and as it was given, in an order in which
\* abs_strength never increases; score_universe returns one result per
\* symbol in an order in which |total_score| never increases.
C16_RankedFilteredDescending ==
    /\ op = "rank_symbols" =>
          /\ \A k \in 1..Len(out.ranked) :
                /\ out.ranked[k][1] \in 1..Len(arg.symbol_results)
                /\ out.ranked[k][2] = arg.symbol_results[out.ranked[k][1]]
          /\ \A symbol \in 1..Len(arg.symbol_results) :
                Cardinality({k \in 1..Len(out.ranked) : out.ranked[k][1] = symbol}) =
                  IF RLe(arg.min_abs_score, arg.symbol_results[symbol].abs_strength)
                  THEN 1 ELSE 0
          /\ \A k \in 1..(Len(out.ranked) - 1) :
                RLe(out.ranked[k + 1][2].abs_strength, out.ranked[k][2].abs_strength)
    /\ op = "score_universe" =>
          /\ Len(out.results) = Len(arg.universe)
          /\ {out.results[k].symbol : k \in 1..Len(out.results)} = 1..Len(arg.universe)
          /\ \A k \in 1..(Len(out.results) - 1) :
                RLe(RAbs(out.results[k + 1].total_score), RAbs(out.results[k].total_score))

C16_Witness ==
    /\ op = "rank_symbols"
    /\ Len(arg.symbol_results) = 2
    /\ Len(out.ranked) = 2
    /\ out.ranked[1][1] = 2
    /\ out.ranked[2][2].abs_strength = arg.min_abs_score
    /\ arg.min_abs_score # Zero

RECURSIVE SumClamped(_, _)
\* the sum of the scores of a set of departments, each within [-10, 10]
SumClamped(module_results, modules) ==
    IF modules = {} THEN Zero
    ELSE LET module_name == CHOOSE x \in modules : TRUE
         IN  RAdd(RMax(MinusTen, RMin(Ten, ScoreOf(module_results, module_name))),
                  SumClamped(module_results, modules \ {module_name}))

\* C17: a department that is absent from module_results, has an empty
\* result, lacks its score key, has a None score or is disabled is left out
\* of module_scores and used_modules, and final_master_score is the value
\* the remaining departments give among themselves: the department is not
\* counted as a 0.
C17_MissingDepartmentsExcluded ==
    op = "master_score_symbol" =>
      LET remaining == Present(arg.config, arg.module_results)
      IN  /\ DOMAIN out.module_scores = remaining
          /\ Range(out.used_modules) = remaining
          /\ Len(out.used_modules) = Cardinality(remaining)
          /\ out.final_master_score =
                IF remaining = {} THEN Zero
                ELSE RDiv(SumClamped(arg.module_results, remaining),
                          [n |-> Cardinality(remaining), d |-> 1])

C17_Witness ==
    /\ op = "master_score_symbol"
    /\ ~arg.config.use_news
    /\ arg.module_results["news"] = Scored("news", 6)
    /\ arg.module_results["macro"] = ResultDict("final_macro_score" :> NoScore)
    /\ out.used_modules = <<"technical", "position_risk">>
    /\ out.final_master_score = [n |-> 4, d |-> 1]

\* the weights the default engine is said to use
SaidWeights ==
    [TECHNICAL |-> [n |-> 26, d |-> 100], NEWS |-> [n |-> 22, d |-> 100],
     MACRO |-> [n |-> 14, d |-> 100], SECTOR |-> [n |-> 14, d |-> 100],
     OPTIONS_FLOW |-> [n |-> 12, d |-> 100], MICRO_COMPANY |-> [n |-> 12, d |-> 100]]

ComponentOf(results, symbol, component_name) ==
    CHOOSE c \in Range(ResultOf(results, symbol).components) :
       c.component_name = component_name

\* C19: from one scoring cycle to the next for the same symbols, a
\* department for which no refresh trigger occurred in the new cycle
\* contributes the weighted score it contributed in the cycle before, even
\* if the symbol's data differs; only triggered departments are recomputed.
C19_UntriggeredDepartmentsKeepScore ==
    [][(op = "score_universe" /\ op' = "score_universe") =>
          \A symbol \in 1..Len(arg'.universe) :
             \A c \in Range(DefaultComponents \o arg'.extra_components) :
                c.name \notin arg'.triggered =>
                   ComponentOf(out'.results, symbol, c.name).weighted_score =
                     ComponentOf(out.results, symbol, c.name).weighted_score]_vars

\* the fixed blend of an engine: 0.3 minor + 0.7 major for fundamentals,
\* 0.6 minor + 0.4 major for position risk and sentiment
Blend(engine, minor, major) ==
    IF engine = "fundamentals"
    THEN RAdd(RMul([n |-> 3, d |-> 10], minor), RMul([n |-> 7, d |-> 10], major))
    ELSE RAdd(RMul([n |-> 6, d |-> 10], minor), RMul([n |-> 4, d |-> 10], major))

NonZero(x) == ~IsNoScore(x) /\ x # Zero

\* C21: when only one of the timeframes MINOR and MAJOR produced a non-zero
\* score, the combined score of the technical component and of the
\* price-action engine is that timeframe's score itself, not a fraction of
\* it.
C21_SingleTimeframeUsedDirectly ==
    /\ op = "price_action_score" =>
          /\ (out.minor_score # Zero /\ out.major_score = Zero) =>
                RDiv(out.final_price_action_score, PriceActionWeight) = out.minor_score
          /\ (out.major_score # Zero /\ out.minor_score = Zero) =>
                RDiv(out.final_price_action_score, PriceActionWeight) = out.major_score
    /\ (op = "technical_score_symbol" /\ Len(arg.indicator_defs) = 1) =>
          LET cfg == IndicatorDefs[arg.indicator_defs[1]]
              minor == Technical_score_indicator_timeframe(cfg,
                          IF arg.has_minor THEN Indicators(snapshot) ELSE NoIndicators,
                          "MINOR")
              major == Technical_score_indicator_timeframe(cfg,
                          IF arg.has_major THEN Indicators(snapshot) ELSE NoIndicators,
                          "MAJOR")
          IN  /\ (NonZero(minor) /\ ~NonZero(major)) => out.computed = Clamp(minor)
              /\ (NonZero(major) /\ ~NonZero(minor)) => out.computed = Clamp(major)

RECURSIVE ContributingWeight(_)
\* the weights of the metrics that contributed a score to a timeframe
ContributingWeight(metric_scores) ==
    IF metric_scores = <<>> THEN Zero
    ELSE RAdd(RMul(MetricDefs[metric_scores[1][1]].weight,
                   GroupBaseWeight(MetricDefs[metric_scores[1][1]].group)),
              ContributingWeight(Tail(metric_scores)))

\* a score that is a number: no division failed on the way to it
IsScore(x) == x.d > 0

C23_EmptyScoreCarriesReason ==
    /\ (op = "news_compute_raw_score" /\ out.details.items_contributed = <<>>) =>
          "reason" \in DOMAIN out.details
    /\ (op = "technical_score_symbol" /\ ~arg.has_minor /\ ~arg.has_major) =>
          out.reason # ""
    /\ (op = "score_timeframe" /\ out.metric_scores = <<>>) =>
          "reason" \in DOMAIN out
    /\ (op = "score_metric_states" /\ arg.engine = "sentiment"
           /\ out.matched_states = <<>>) =>
          "reason" \in DOMAIN out

\* C24: a rule table with a state whose score range has low > high, or with
\* a metric of a group the table's groups do not list, is rejected before
\* evaluation: no call returns a score computed from such a range or from
\* a defaulted group weight.
C24_InvalidTableIsRejected ==
    /\ (op = "score_metric_states" /\ ~IsNoScore(out.score)) =>
          \A i \in 1..Len(out.matched_states) :
             LET score_range == StateDefs[out.matched_states[i]].score_range
             IN  score_range[1] <= score_range[2]
    /\ (op = "score_timeframe" /\ out.metric_scores # <<>>) =>
          \A i \in 1..Len(out.metric_scores) :
             MetricDefs[out.metric_scores[i][1]].group \in DOMAIN GroupsDef

\* C27: a condition that compares with a negative literal or a negated term
\* is evaluated by safe_eval to the truth value of the comparison, so that
\* the state matches in the options-flow, sentiment and position-risk
\* engines exactly when the comparison holds.
C27_NegativeTermsCompared ==
    (op = "match" /\ arg.engine \in SafeEvalEngines
        /\ IsNum("gamma_exposure") /\ IsNum("gamma_critical_threshold"))
    => /\ arg.cond = CondOf("gamma_exposure <= -3")
            => (out.matched <=> RLe(Val("gamma_exposure"), [n |-> -3, d |-> 1]))
       /\ arg.cond = CondOf("-6 <= gamma_exposure <= 6")
            => (out.matched <=> /\ RLe([n |-> -6, d |-> 1], Val("gamma_exposure"))
                                /\ RLe(Val("gamma_exposure"), [n |-> 6, d |-> 1]))
       /\ arg.cond = CondOf("gamma_exposure <= -1.2 * gamma_critical_threshold")
            => (out.matched <=>
                  RLe(Val("gamma_exposure"),
                      RMul([n |-> -6, d |-> 5], Val("gamma_critical_threshold"))))

\* the magnitude of a timeframe score is at most 1e-6
ScoresZero(x) == RLe(RAbs(x), [n |-> 1, d |-> 1000000])

\* C28: in the fundamentals, position-risk and sentiment engines a timeframe
\* whose score is 0 (magnitude at most 1e-6) is combined as a timeframe
\* without a match: with the other timeframe at m, of magnitude above 1e-6,
\* the combined score is m itself, not a blend of 0 and m.
C28_ZeroTimeframeIsNoMatch ==
    op = "combine_minor_major" =>
      /\ (ScoresZero(arg.minor) /\ ~ScoresZero(arg.major)) => out.combined = arg.major
      /\ (ScoresZero(arg.major) /\ ~ScoresZero(arg.minor)) => out.combined = arg.minor

C28_Witness ==
    /\ op = "combine_minor_major"
    /\ arg.engine = "position_risk"
    /\ arg.minor = Zero
    /\ arg.major = [n |-> -4, d |-> 1]
    /\ out.combined = [n |-> -4, d |-> 1]

\* C29: for each department whose engine the master knows (options, pattern,
\* position_risk), the dict the engine's score returns holds the key that
\* module_score_keys maps the module to, so that passing the dict unchanged
\* to score_symbol places the module in used_modules.
C29_EngineKeysMatchMaster ==
    op = "master_score_engine_output" =>
      /\ module_score_keys[arg.module_name] \in DOMAIN out.engine_result
      /\ arg.module_name \in Range(out.master.used_modules)

\* the value pattern_data holds for a key is the string value
Holds(pattern_data, key, value) ==
    key \in DOMAIN pattern_data /\ pattern_data[key] = Str(value)

\* C30: in PriceActionScoringEngine._match_state a condition joined by AND
\* matches only when every conjunct holds, and a conjunct "field == 'VALUE'"
\* holds exactly when pattern_data[field] equals VALUE: the structure state
\* with "swings_count >= 3" matches only on HH_HL with at least 3 swings,
\* the state "pattern == 'DOUBLE_TOP'" matches exactly on that pattern, and
\* the two states that differ in the second conjunct only (swings_count >= 3
\* and swings_count == 2) never match together.
C30_ConjunctsAllHold ==
    op = "price_action_score" =>
      /\ <<"STRUCTURE", "STRONG_UPTREND">> \in out.matched_states =>
            \/ /\ Holds(arg.pattern_data, "structure", "HH_HL")
               /\ arg.pattern_data.swings_count.n >= 3
            \/ 1 \notin Range(arg.patterns)
      /\ 4 \in Range(arg.patterns) =>
            (<<"CUSTOM", "DOUBLE_TOP">> \in out.matched_states
               <=> Holds(arg.pattern_data, "pattern", "DOUBLE_TOP"))
      /\ ~ /\ <<"STRUCTURE", "STRONG_UPTREND">> \in out.matched_states
           /\ <<"STRUCTURE", "WEAK_UPTREND">> \in out.matched_states

====
